---- MODULE Spec2Model ----
(***************************************************************************)
(* Job registry, line framing and server-sent-event streaming of the      *)
(* yt-dlp download server (createAppServer in server.mjs).                 *)
(*                                                                         *)
(* Text is a sequence of UTF-16 code units (naturals); a log line is the   *)
(* sequence of code units between two line terminators.  An event written  *)
(* to an /api/events response is a record [event, line, exitCode].         *)
(***************************************************************************)
EXTENDS Integers, Sequences, FiniteSets, TLC

(* ------------------------------ bounds -------------------------------- *)

\* POST /api/download requests handled in one run (and so job ids in use)
MaxPosts == 2
\* GET /api/events connections opened in one run
MaxConns == 2
\* 'data' callbacks delivered in one run of Spec
MaxData == 2
\* code units in one small data chunk
MaxChunkLen == 2
\* 'data' callbacks delivered in one run of FramerSpec
MaxFeeds == 3
\* 'data' callbacks delivered in one run of LogSpec
MaxBursts == 4
\* lines in a large data chunk
BigBurst == 700
\* ids in the ids array of one request body
MaxIds == 2
\* characters and escapes in the name of one GET /api/file request
MaxNameLen == 3
\* GET /api/files and GET /api/file requests handled in one run
MaxGets == 1
\* code units in the whole output of a listing's child
MaxListText == 6
\* code units in one chunk of the output of a listing
MaxListChunkLen == 2
\* units in all the output of the child of GET /api/doctor
MaxDoctorText == 2
\* arguments on a command line, after the binary and the script
MaxArgs == 4
\* code units in the output of the children of the two listings side by side
MaxAliasText == 4
\* characters these children write to stderr
MaxAliasErr == 1
\* units in all the output of the child of GET /api/info
MaxInfoText == 5
\* pieces of text on the stdout of the child of a probe in ReplySpec
MaxReplyText == 2

(* -------------------------- program constants ------------------------- *)

\* job.lines.length > 2000 in jobAppend
LogCap == 2000
\* job.lines.slice(-250) in GET /api/events
ReplayTail == 250
\* "\n"
LF == 10
\* "\r"
CR == 13
\* ordinary characters ("a", "b")
ChA == 97
ChB == 98
\* first code unit used for the numbered lines of large chunks
LineBase == 100
\* jobDone(jobId, -1): the failure sentinel
Sentinel == -1
\* {11} in isValidYtId
IdLen == 11
\* "https://www.youtube.com/watch?v=" in buildVideoUrlFromId, as one code unit
WatchPrefix == 1000
\* the units of the output of a listing (see GET /api/list below)
OpenA == 2001
OpenB == 2002
OpenShort == 2003
CloseBrace == 125

JobIds == 1 .. MaxPosts
Conns == 1 .. MaxConns
Streams == {"stdout", "stderr"}

VARIABLES
    jobs,      \* the registry: job id -> [id, createdAt, lines, sseClients, downloadsDir, done]
    child,     \* job id -> the child process handle of the job
    replies,   \* the replies of POST /api/download, in request order
    conn,      \* connection -> the /api/events request and its response
    sent,      \* connection -> the events written to the response
    appended,  \* job id -> every line ever passed to jobAppend (history)
    fed,       \* job id -> stream -> the chunks delivered so far, joined
    spawns,    \* the calls of the spawner by POST /api/download: [jobId, args]
    tmpFiles,  \* job id -> the bulk list file in os.tmpdir(): <<>> or <<text>>
    disk,      \* job id -> the job's output directory: [exists, files]
    http,      \* the replies of GET /api/files and GET /api/file, in request order
    list,      \* the GET /api/list request in progress and its reply
    playlist,  \* the GET /api/playlist request in progress and its reply
    probe,     \* the GET /api/doctor or GET /api/info request and its reply
    cli        \* the command line given to parseArgs and its result

\* the file system the handlers of POST /api/download touch
osVars == <<spawns, tmpFiles, disk>>

\* the requests of the file and listing endpoints
sideVars == <<playlist, probe, cli>>
webVars == <<http, list, sideVars>>

vars ==
    <<jobs, child, replies, conn, sent, appended, fed, spawns, tmpFiles, disk,
      http, list, playlist, probe, cli>>

(* ------------------------------ helpers ------------------------------- *)

Min(a, b) == IF a <= b THEN a ELSE b

Max(a, b) == IF a >= b THEN a ELSE b

\* Array.prototype.slice(-n): the last n elements (all when shorter)
SliceLast(s, n) == SubSeq(s, Max(1, Len(s) - n + 1), Len(s))

LogEvent(line) == [event |-> "log", line |-> line, exitCode |-> 0]

DoneEvent(exitCode) == [event |-> "done", line |-> <<>>, exitCode |-> exitCode]

\* sseSend(res, event, data): two writes that make one event on the stream
SseSend(s, res, ev) == [s EXCEPT ![res] = Append(@, ev)]

(* ---------------------------- line framing ---------------------------- *)

NonEmpty(s) == s # <<>>

\* the index of the first "\n" of text at or after index i (Len(text)+1: none)
NextLF(text, i) ==
    IF \E j \in i .. Len(text) : text[j] = LF
    THEN CHOOSE j \in i .. Len(text) :
             /\ text[j] = LF
             /\ \A k \in i .. (j - 1) : text[k] # LF
    ELSE Len(text) + 1

\* the piece of text that starts at index i and runs up to the next match of
\* /\r?\n/ (or to the end of the text)
PieceAt(text, i) ==
    LET j == NextLF(text, i)
        e == IF j > Len(text) THEN Len(text)
             ELSE IF j > i /\ text[j - 1] = CR THEN j - 2
             ELSE j - 1
    IN  SubSeq(text, i, e)

\* String(chunk).split(/\r?\n/).filter(Boolean): the pieces between the
\* line terminators of this one chunk, the empty ones dropped
SplitLines(chunk) ==
    SelectSeq([i \in 1 .. (Len(chunk) + 1) |->
                  IF i = 1 \/ chunk[i - 1] = LF THEN PieceAt(chunk, i) ELSE <<>>],
              NonEmpty)

(* ---------------------------- job registry ---------------------------- *)

\* A heap is the part of the state that jobAppend and jobDone read and write:
\* [jobs, conn, sent, appended].

\* faulty variant: the cap drops the newest lines instead of the oldest
CapLinesKeepsOldest(lines) ==
    IF Len(lines) > LogCap THEN SubSeq(lines, 1, LogCap) ELSE lines

\* job.lines.splice(0, job.lines.length - 2000) when longer than 2000
CapLines(lines) ==
    IF Len(lines) > LogCap THEN SubSeq(lines, Len(lines) - LogCap + 1, Len(lines))
    ELSE lines

\* faulty variant: only one of the clients is written to
BroadcastToOne(s, clients, ev) ==
    [c \in DOMAIN s |->
        IF c \in clients /\ \A d \in clients : c <= d THEN Append(s[c], ev) ELSE s[c]]

\* for (const client of job.sseClients) sseSend(client, event, data)
Broadcast(s, clients, ev) ==
    [c \in DOMAIN s |-> IF c \in clients THEN SseSend(s, c, ev)[c] ELSE s[c]]

\* for (const client of job.sseClients) client.end()
EndAll(cn, clients) ==
    [c \in DOMAIN cn |-> IF c \in clients THEN [cn[c] EXCEPT !.ended = TRUE] ELSE cn[c]]

\* faulty variant: the line is dropped
JobAppendNothing(h, jobId, line) == h

\* jobAppend(jobId, line)
JobAppend(h, jobId, line) ==
    IF jobId \notin DOMAIN h.jobs THEN h
    ELSE [h EXCEPT
            !.jobs[jobId].lines = CapLines(Append(@, line)),
            !.sent = Broadcast(@, h.jobs[jobId].sseClients, LogEvent(line)),
            !.appended[jobId] = Append(@, line)]

\* faulty variant: the listeners are notified but stay registered
JobDoneKeepsClients(h, jobId, exitCode) ==
    IF jobId \notin DOMAIN h.jobs THEN h
    ELSE [h EXCEPT
            !.jobs[jobId].done = <<exitCode>>,
            !.sent = Broadcast(@, h.jobs[jobId].sseClients, DoneEvent(exitCode)),
            !.conn = EndAll(@, h.jobs[jobId].sseClients)]

\* faulty variant: completion forgets the job's output directory
JobDoneForgetsDir(h, jobId, exitCode) ==
    IF jobId \notin DOMAIN h.jobs THEN h
    ELSE [h EXCEPT
            !.jobs[jobId].done = <<exitCode>>,
            !.jobs[jobId].downloadsDir = <<>>,
            !.sent = Broadcast(@, h.jobs[jobId].sseClients, DoneEvent(exitCode)),
            !.conn = EndAll(@, h.jobs[jobId].sseClients),
            !.jobs[jobId].sseClients = {}]

\* jobDone(jobId, exitCode)
JobDone(h, jobId, exitCode) ==
    IF jobId \notin DOMAIN h.jobs THEN h
    ELSE [h EXCEPT
            !.jobs[jobId].done = <<exitCode>>,
            !.sent = Broadcast(@, h.jobs[jobId].sseClients, DoneEvent(exitCode)),
            !.conn = EndAll(@, h.jobs[jobId].sseClients),
            !.jobs[jobId].sseClients = {}]

\* for (const line of lines) jobAppend(jobId, line): the lines are appended
\* one by one, in order (the sequence is halved to keep the evaluation
\* shallow; for an unknown job every jobAppend returns at once)
RECURSIVE AppendAll(_, _, _)
AppendAll(h, jobId, lines) ==
    IF jobId \notin DOMAIN h.jobs \/ lines = <<>> THEN h
    ELSE IF Len(lines) = 1 THEN JobAppend(h, jobId, lines[1])
    ELSE LET m == Len(lines) \div 2
         IN  AppendAll(AppendAll(h, jobId, SubSeq(lines, 1, m)),
                       jobId, SubSeq(lines, m + 1, Len(lines)))

Heap == [jobs |-> jobs, conn |-> conn, sent |-> sent, appended |-> appended]

\* the state after a handler that leaves heap h
Store(h) ==
    /\ jobs' = h.jobs
    /\ conn' = h.conn
    /\ sent' = h.sent
    /\ appended' = h.appended

(* ------------------------------- inputs ------------------------------- *)

\* the characters of a video id: [a-zA-Z0-9_-]
IdChars == (48 .. 57) \cup (65 .. 90) \cup (97 .. 122) \cup {95, 45}

\* faulty variant: the pattern without its length, /^[a-zA-Z0-9_-]+$/
IsValidYtIdAnyLength(id) == Len(id) > 0 /\ \A i \in 1 .. Len(id) : id[i] \in IdChars

\* isValidYtId: typeof id === "string" && /^[a-zA-Z0-9_-]{11}$/.test(id)
IsValidYtId(id) == Len(id) = IdLen /\ \A i \in 1 .. Len(id) : id[i] \in IdChars

\* video ids a client sends: two that match the pattern, one that is too
\* short and one with a character outside the class ("!")
IdA == [i \in 1 .. IdLen |-> ChA]
IdB == [i \in 1 .. IdLen |-> ChB]
IdShort == <<ChA>>
IdBang == [i \in 1 .. IdLen |-> IF i = IdLen THEN 33 ELSE ChA]
IdPool == {IdA, IdB, IdShort, IdBang}

\* the ids arrays of the request bodies
IdLists == UNION {[1 .. n -> IdPool] : n \in 0 .. MaxIds}

\* the url fields of the request bodies, as sequences of characters
Urls == {<<>>, <<" ">>, <<"u">>, <<" ", "u", " ">>}

\* Number(body.quality), or null when the field is null or absent: a number
\* is held as twice its value (half = 3 is 1.5)
NoQuality == [kind |-> "null", half |-> 0]
Num(half) == [kind |-> "number", half |-> half]
Qualities ==
    {NoQuality, Num(2 * 720), Num(3), Num(0), Num(-2),
     [kind |-> "NaN", half |-> 0], [kind |-> "Infinity", half |-> 0]}

\* the outDir field of a request body: absent, or a path that names no
\* directory of the server
OutDirs == {"", "missing-dir"}

\* the parsed request bodies of POST /api/download: json is whether the body
\* parses; cookiesFromBrowser "" is an absent (falsy) field
AllBodies ==
    [json : BOOLEAN, url : Urls, ids : IdLists,
     cookiesFromBrowser : {"", "chrome", "safari"},
     quality : Qualities, mp3 : BOOLEAN, videoOnly : BOOLEAN, outDir : OutDirs]

\* what the platform does during one POST /api/download: whether the spawner
\* throws, whether fs.mkdirSync fails, whether fs.writeFileSync fails and
\* whether the request stream emits 'error' while the body is read
AllEnvs ==
    [spawnThrows : BOOLEAN, mkdirFails : BOOLEAN, writeFails : BOOLEAN,
     readFails : BOOLEAN]

\* the platform on which the body is read and the list file is written
Envs == {e \in AllEnvs : ~e.writeFails /\ ~e.readFails}

\* the platform of Spec: the job directory can always be made as well
SpecEnvs == {e \in Envs : ~e.mkdirFails}

Launches ==
    [spawnThrows |-> FALSE, mkdirFails |-> FALSE, writeFails |-> FALSE,
     readFails |-> FALSE]

\* the code argument of the child's 'close' event: <<n>> a number, <<>> null
CloseCodes == {<<0>>, <<>>}

\* small chunks: every text of 1 .. MaxChunkLen code units over "\n", "\r", "a"
SmallChunks == UNION {[1 .. n -> {LF, CR, ChA}] : n \in 1 .. MaxChunkLen}

\* the 'data' callbacks of Spec: "a\n" on stdout, "b\r\na\n" on stderr
DataInputs ==
    {[stream |-> "stdout", chunk |-> <<ChA, LF>>],
     [stream |-> "stderr", chunk |-> <<ChB, CR, LF, ChA, LF>>]}

\* the sizes, in lines, of the chunks of LogSpec
BurstSizes == {1, BigBurst}

\* a body that starts a download of one url
GoodBody ==
    [json |-> TRUE, url |-> <<"u">>, ids |-> <<>>, cookiesFromBrowser |-> "",
     quality |-> NoQuality, mp3 |-> FALSE, videoOnly |-> FALSE, outDir |-> ""]

\* the bodies of Spec, one for each way through the handler: one that does
\* not parse, one without url and ids, one with the cookies of a browser
\* that is not allowed, and GoodBody
Bodies ==
    {[GoodBody EXCEPT !.json = FALSE],
     [GoodBody EXCEPT !.url = <<>>],
     [GoodBody EXCEPT !.cookiesFromBrowser = "safari"],
     GoodBody}

\* a large chunk: k numbered lines that follow the n lines written before,
\* each ended by "\n"
BigChunk(n, k) ==
    [i \in 1 .. (2 * k) |-> IF i % 2 = 1 THEN LineBase + n + ((i + 1) \div 2) ELSE LF]

\* the line appended when the spawner throws ("Failed to start yt-dlp ...")
FailedToStartLine == <<70>>

\* the line appended by the child's 'error' handler ("yt-dlp spawn error: ...")
SpawnErrorLine == <<69>>

NoChild == [spawned |-> FALSE, errored |-> FALSE, closed |-> FALSE]

\* a job directory that was never made
NoDir == [exists |-> FALSE, files |-> {}]

\* no GET /api/list request yet: state is "idle", "running" (the child was
\* spawned) or "replied"; stdout is all the text the child wrote (history)
\* and exit the event that settled the request (history)
NoList ==
    [state |-> "idle", url |-> <<>>, args |-> <<>>, buffer |-> <<>>, videos |-> <<>>,
     stdout |-> <<>>, stderr |-> <<>>, exit |-> "", status |-> 0, error |-> <<>>,
     events |-> <<>>, responses |-> 0]

\* no GET /api/doctor or GET /api/info request yet
NoProbe ==
    [route |-> "", state |-> "idle", args |-> <<>>, stdout |-> <<>>,
     stderr |-> <<>>, exit |-> "", status |-> 0, ok |-> FALSE, error |-> <<>>,
     message |-> <<>>, ytDlpCommand |-> "", title |-> "", id |-> "", qualities |-> <<>>,
     mp3 |-> FALSE, events |-> <<>>, responses |-> 0]

\* parseArgs was not called yet
NoCli == [called |-> FALSE, argv |-> <<>>, out |-> <<>>]

NoConn ==
    [status |-> 0, jobId |-> 0, ended |-> FALSE, onClose |-> FALSE,
     closed |-> FALSE, attachAt |-> 0]

(* ------------------------------- state -------------------------------- *)

Init ==
    /\ jobs = <<>>
    /\ child = [j \in JobIds |-> NoChild]
    /\ replies = <<>>
    /\ conn = [c \in Conns |-> NoConn]
    /\ sent = [c \in Conns |-> <<>>]
    /\ appended = [j \in JobIds |-> <<>>]
    /\ fed = <<>>
    /\ spawns = <<>>
    /\ tmpFiles = [j \in JobIds |-> <<>>]
    /\ disk = [j \in JobIds |-> NoDir]
    /\ http = <<>>
    /\ list = NoList
    /\ playlist = NoList
    /\ probe = NoProbe
    /\ cli = NoCli

\* Job ids are numbered in the order of their first use: the value of
\* crypto.randomBytes(8).toString("hex") is the id of a job of the registry
\* or the next number.
RandomJobIds == 1 .. Len(jobs) + 1

\* an id no job has yet
FreshJobId == Len(jobs) + 1

\* jobs.set(jobId, job)
SetJob(registry, jobId, job) ==
    IF jobId = Len(registry) + 1 THEN Append(registry, job)
    ELSE [registry EXCEPT ![jobId] = job]

\* fs.mkdirSync(jobDir, { recursive: true }) in try/catch
MkdirSync(dir, fails) ==
    IF dir.exists THEN dir ELSE [exists |-> ~fails, files |-> {}]

\* the message of the error fs.writeFileSync throws, and of the one a
\* request stream emits
WriteError == "ENOSPC: no space left on device, write"
ReadError == "aborted"

\* a reply of POST /api/download: the request body it answers, the status
\* and, of the JSON reply, the error, the jobId (0: none), the count (0: none)
\* and whether it has a downloadsDir
Reply(body, status, error, jobId, count, withDir) ==
    [body |-> body, status |-> status, error |-> error, jobId |-> jobId,
     count |-> count, downloadsDir |-> withDir]

\* faulty variant: every browser name is accepted
AllowedBrowserAny(name) == TRUE

\* ["chrome", "edge", "firefox"].includes(cookiesFromBrowser)
AllowedBrowser(name) == name \in {"chrome", "edge", "firefox"}

BadCookiesError == "cookiesFromBrowser must be one of: chrome, edge, firefox"

\* String.prototype.trim on a sequence of characters
IsSpace(ch) == ch \in {" ", "\t", "\n", "\r"}

Trim(str) ==
    LET kept == {i \in 1 .. Len(str) : ~IsSpace(str[i])}
    IN  IF kept = {} THEN <<>>
        ELSE SubSeq(str, CHOOSE i \in kept : \A k \in kept : i <= k,
                         CHOOSE i \in kept : \A k \in kept : i >= k)

\* path.join(baseDownloadsDir, "ytdlp-ui", jobId), as path segments
JobDir(jobId) == <<"base", "ytdlp-ui", ToString(jobId)>>

\* Date.now(): the clock, which every answered POST /api/download advances
DateNow == Len(replies) + 1

\* the job object of POST /api/download as the handler leaves it: created
\* with downloadsDir null, which is set to jobDir before the handler yields
NewJob(jobId) ==
    [id |-> jobId, createdAt |-> DateNow, lines |-> <<>>, sseClients |-> {},
     downloadsDir |-> JobDir(jobId), done |-> <<>>]

\* path.join(baseDownloadsDir, "ytdlp-ui", ".ytdlp-archive.txt")
ArchivePath == <<"base", "ytdlp-ui", ".ytdlp-archive.txt">>

\* path.join(os.tmpdir(), `ytdlp-ui-${jobId}.txt`)
TmpListPath(jobId) == <<"tmp", "ytdlp-ui-" \o ToString(jobId) \o ".txt">>

\* faulty variant: the bare id is written to the list
BuildVideoUrlBare(id) == id

\* buildVideoUrlFromId: the watch-URL prefix, one code unit here, then the id
BuildVideoUrlFromId(id) == <<WatchPrefix>> \o id

\* validIds.map(buildVideoUrlFromId).join("\n") + "\n"
RECURSIVE UrlsList(_)
UrlsList(ids) ==
    IF ids = <<>> THEN <<LF>>
    ELSE IF Len(ids) = 1 THEN BuildVideoUrlFromId(ids[1]) \o <<LF>>
    ELSE BuildVideoUrlFromId(ids[1]) \o <<LF>> \o UrlsList(Tail(ids))

\* fs.unlinkSync(tmpListPath) in try/catch
Unlink(files, jobId) == [files EXCEPT ![jobId] = <<>>]

\* requestedQuality && Number.isFinite(requestedQuality)
HasQuality(quality) == quality.kind = "number" /\ quality.half # 0

\* Math.floor(requestedQuality)
Floor(quality) == quality.half \div 2

\* `bestvideo[height<=${h}]+bestaudio/best[height<=${h}]`, as its parts
FormatSelector(h) ==
    <<"bestvideo[height<=", ToString(h), "]", "+bestaudio", "/best[height<=",
      ToString(h), "]">>

\* an argument of one part
Arg(str) == <<str>>

\* the yt-dlp argument list of a download; every argument is the sequence
\* of its parts
DownloadArgs(jobId, body, url, isBulk) ==
    LET base == <<Arg("-i"), Arg("--yes-playlist"), Arg("--newline"),
                  Arg("--no-warnings"), Arg("--download-archive"), ArchivePath,
                  Arg("-P"), JobDir(jobId), Arg("-o"),
                  Arg("%(upload_date)s - %(title)s [%(id)s].%(ext)s")>>
        format == IF body.mp3
                  THEN <<Arg("--extract-audio"), Arg("--audio-format"), Arg("mp3")>>
                  ELSE <<Arg("--merge-output-format"), Arg("mp4")>>
        height == IF HasQuality(body.quality)
                  THEN <<Arg("-f"), FormatSelector(Floor(body.quality))>>
                  ELSE <<>>
        target == IF isBulk THEN <<Arg("-a"), TmpListPath(jobId)>> ELSE <<url>>
        cookies == IF body.cookiesFromBrowser # ""
                   THEN <<Arg("--cookies-from-browser"), Arg(body.cookiesFromBrowser)>>
                   ELSE <<>>
    IN  cookies \o base \o format \o height \o target

\* POST /api/download, with jobId the value of crypto.randomBytes
PostDownloadAs(body, env, jobId) ==
    LET url == Trim(body.url)
        validIds == SelectSeq(body.ids, IsValidYtId)
        isBulk == Len(validIds) > 0
        count == IF isBulk THEN Len(validIds) ELSE 1
        args == DownloadArgs(jobId, body, url, isBulk)
        created == [Heap EXCEPT !.jobs = SetJob(jobs, jobId, NewJob(jobId))]
        failed == JobDone(JobAppend(created, jobId, FailedToStartLine), jobId, Sentinel)
        jobDir == MkdirSync(disk[jobId], env.mkdirFails)
        written == IF isBulk
                   THEN [tmpFiles EXCEPT ![jobId] = <<UrlsList(validIds)>>]
                   ELSE tmpFiles
    IN  IF env.readFails
        THEN /\ replies' = Append(replies, Reply(body, 500, ReadError, 0, 0, FALSE))
             /\ UNCHANGED <<jobs, child, conn, sent, appended, fed, osVars, webVars>>
        ELSE IF ~body.json
        THEN /\ replies' =
                  Append(replies, Reply(body, 400, "Invalid JSON body", 0, 0, FALSE))
             /\ UNCHANGED <<jobs, child, conn, sent, appended, fed, osVars, webVars>>
        ELSE IF ~isBulk /\ url = <<>>
        THEN /\ replies' = Append(replies, Reply(body, 400, "Missing url", 0, 0, FALSE))
             /\ UNCHANGED <<jobs, child, conn, sent, appended, fed, osVars, webVars>>
        ELSE IF isBulk /\ env.writeFails
        THEN /\ Store(created)
             /\ disk' = [disk EXCEPT ![jobId] = jobDir]
             /\ replies' = Append(replies, Reply(body, 500, WriteError, 0, 0, FALSE))
             /\ UNCHANGED <<child, fed, spawns, tmpFiles, webVars>>
        ELSE IF body.cookiesFromBrowser # "" /\ ~AllowedBrowser(body.cookiesFromBrowser)
        THEN /\ Store(created)
             /\ disk' = [disk EXCEPT ![jobId] = jobDir]
             /\ tmpFiles' = written
             /\ replies' = Append(replies, Reply(body, 400, BadCookiesError, 0, 0, FALSE))
             /\ UNCHANGED <<child, fed, spawns, webVars>>
        ELSE IF env.spawnThrows
        THEN /\ Store(failed)
             /\ disk' = [disk EXCEPT ![jobId] = jobDir]
             /\ tmpFiles' = Unlink(written, jobId)
             /\ spawns' = Append(spawns, [jobId |-> jobId, args |-> args])
             /\ replies' = Append(replies, Reply(body, 200, "", jobId, count, FALSE))
             /\ UNCHANGED <<child, fed, webVars>>
        ELSE /\ Store(created)
             /\ disk' = [disk EXCEPT ![jobId] = jobDir]
             /\ tmpFiles' = written
             /\ spawns' = Append(spawns, [jobId |-> jobId, args |-> args])
             /\ child' = [child EXCEPT ![jobId] = [NoChild EXCEPT !.spawned = TRUE]]
             /\ replies' = Append(replies, Reply(body, 200, "", jobId, count, TRUE))
             /\ UNCHANGED <<fed, webVars>>

\* POST /api/download when randomBytes gives an id that no job has yet (as
\* it does, but for one case in 2^64, for every pair of requests)
PostDownload(body, env) == PostDownloadAs(body, env, FreshJobId)

\* The child handle is an event emitter: it delivers 'data' on either stream
\* until 'close', 'error' at most once and before 'close', and 'close' at
\* most once; 'close' may follow 'error' (as it does when the spawn fails
\* asynchronously) and 'data' may follow 'error'.

\* onData(chunk), the 'data' listener of child.stdout and child.stderr
OnData(jobId, stream, chunk) ==
    /\ child[jobId].spawned
    /\ ~child[jobId].closed
    /\ Store(AppendAll(Heap, jobId, SplitLines(chunk)))
    /\ fed' = Append(fed, [jobId |-> jobId, stream |-> stream, chunk |-> chunk])
    /\ UNCHANGED <<child, replies, osVars, webVars>>

\* child.on("error", ...)
OnChildError(jobId) ==
    /\ child[jobId].spawned
    /\ ~child[jobId].errored
    /\ ~child[jobId].closed
    /\ tmpFiles' = Unlink(tmpFiles, jobId)
    /\ Store(JobDone(JobAppend(Heap, jobId, SpawnErrorLine), jobId, Sentinel))
    /\ child' = [child EXCEPT ![jobId].errored = TRUE]
    /\ UNCHANGED <<replies, fed, spawns, disk, webVars>>

\* typeof code === "number" ? code : -1
CloseExitCode(code) == IF code # <<>> THEN code[1] ELSE Sentinel

\* child.on("close", ...)
OnChildClose(jobId, code) ==
    /\ child[jobId].spawned
    /\ ~child[jobId].closed
    /\ tmpFiles' = Unlink(tmpFiles, jobId)
    /\ Store(JobDone(Heap, jobId, CloseExitCode(code)))
    /\ child' = [child EXCEPT ![jobId].closed = TRUE]
    /\ UNCHANGED <<replies, fed, spawns, disk, webVars>>

\* the next connection the server accepts
FreshConn == CHOOSE c \in Conns : conn[c].status = 0 /\ \A d \in 1 .. (c - 1) : conn[d].status # 0

\* faulty variant: slice(0, 250), the oldest lines
ReplayLinesHead(lines) == SubSeq(lines, 1, Min(Len(lines), ReplayTail))

\* job.lines.slice(-250)
ReplayLines(lines) == SliceLast(lines, ReplayTail)

\* faulty variant: the newest line is written once more after the replay
ReplayRepeatsNewest(s, res, lines) ==
    [s EXCEPT ![res] =
        @ \o [i \in 1 .. Len(ReplayLines(lines)) |-> LogEvent(ReplayLines(lines)[i])]
          \o (IF lines = <<>> THEN <<>> ELSE <<LogEvent(lines[Len(lines)])>>)]

\* for (const line of job.lines.slice(-250)) sseSend(res, "log", { line })
Replay(s, res, lines) ==
    [s EXCEPT ![res] = @ \o [i \in 1 .. Len(ReplayLines(lines)) |-> LogEvent(ReplayLines(lines)[i])]]

\* faulty variant: if (job.done.exitCode), false for a job that ended with code 0
IsTerminalByExitCode(job) == job.done # <<>> /\ job.done[1] # 0

\* if (job.done)
IsTerminal(job) == job.done # <<>>

\* faulty variant: 'done' is written before the replay
AttachDoneFirst(s, res, job) ==
    IF IsTerminal(job)
    THEN Replay(SseSend(s, res, DoneEvent(job.done[1])), res, job.lines)
    ELSE Replay(s, res, job.lines)

\* the replay and, for a terminal job, the 'done' event that follows it
Attach(s, res, job) ==
    IF IsTerminal(job)
    THEN SseSend(Replay(s, res, job.lines), res, DoneEvent(job.done[1]))
    ELSE Replay(s, res, job.lines)

\* faulty variant: the response is added to sseClients for a terminal job too
RegisterAlways(clients, res, job) == clients \cup {res}

\* job.sseClients.add(res), unless the handler returned res.end() before
Register(clients, res, job) == IF IsTerminal(job) THEN clients ELSE clients \cup {res}

\* faulty variant: the close handler removes nothing
DetachNothing(clients, res) == clients

\* job.sseClients.delete(res)
Detach(clients, res) == clients \ {res}

\* GET /api/events/:jobId
EventsRequest(jobId) ==
    /\ \E c \in Conns : conn[c].status = 0
    /\ LET res == FreshConn
       IN  IF jobId \notin DOMAIN jobs
           THEN /\ conn' = [conn EXCEPT ![res] = [@ EXCEPT !.status = 400, !.ended = TRUE]]
                /\ UNCHANGED <<jobs, sent>>
           ELSE LET job == jobs[jobId]
                    registered == Register(job.sseClients, res, job)
                IN  /\ sent' = Attach(sent, res, job)
                    /\ jobs' = [jobs EXCEPT ![jobId].sseClients = registered]
                    /\ conn' = [conn EXCEPT ![res] =
                                  [@ EXCEPT !.status = 200,
                                            !.jobId = jobId,
                                            !.attachAt = Len(appended[jobId]),
                                            !.ended = res \notin registered,
                                            !.onClose = res \in registered]]
    /\ UNCHANGED <<child, replies, appended, fed, osVars, webVars>>

\* req.on("close", () => job.sseClients.delete(res))
OnReqClose(res) ==
    /\ conn[res].onClose
    /\ jobs' = [jobs EXCEPT ![conn[res].jobId].sseClients = Detach(@, res)]
    /\ conn' = [conn EXCEPT ![res].closed = TRUE]
    /\ UNCHANGED <<child, replies, sent, appended, fed, osVars, webVars>>

(* ------------------------- files of a job ----------------------------- *)

\* the names of the files a child writes: "a" and "a_"
DiskNames == {<<ChA>>, <<ChA, 95>>}

\* yt-dlp writes a file into the job directory (-P jobDir)
ChildWritesFile(jobId, name) ==
    /\ child[jobId].spawned
    /\ ~child[jobId].closed
    /\ disk[jobId].exists
    /\ disk' = [disk EXCEPT ![jobId].files = @ \cup {name}]
    /\ UNCHANGED <<jobs, child, replies, conn, sent, appended, fed, spawns, tmpFiles, webVars>>

\* the characters and percent-escapes of a requested name: "%" is an escape
\* that is not followed by two hex digits
NameTokens == {"a", ".", "%2F", "%5C", "%"}

\* the :name parts of the pathname of a request.  new URL() resolves a
\* segment that is "." or ".." (escaped or not) and turns "\" into "/", so
\* such a name never reaches the handler; escaped separators do.
RawNames ==
    UNION {[1 .. n -> NameTokens] : n \in 1 .. MaxNameLen} \ {<<".">>, <<".", ".">>}

\* the code unit an escape or a character of a name stands for
DecodeToken(token) ==
    CASE token = "a" -> ChA
      [] token = "." -> 46
      [] token = "%2F" -> 47
      [] token = "%5C" -> 92

\* decodeURIComponent: <<text>>, or <<>> when it throws URIError
DecodeURIComponent(raw) ==
    IF \E i \in 1 .. Len(raw) : raw[i] = "%" THEN <<>>
    ELSE <<[i \in 1 .. Len(raw) |-> DecodeToken(raw[i])]>>

\* encodeURIComponent of a file name
EncodeURIComponent(name) ==
    [i \in 1 .. Len(name) |->
        CASE name[i] = ChA -> "a"
          [] name[i] = 46 -> "."
          [] name[i] = 95 -> "_"
          [] name[i] = 47 -> "%2F"
          [] name[i] = 92 -> "%5C"]

\* the path separators of the platform: "/" and, on Windows, "\"
Separators(win32) == IF win32 THEN {47, 92} ELSE {47}

\* path.basename: the part after the last separator, trailing separators
\* dropped
Basename(name, win32) ==
    LET seps == Separators(win32)
        kept == {i \in 1 .. Len(name) : name[i] \notin seps}
    IN  IF kept = {} THEN <<>>
        ELSE LET end == CHOOSE i \in kept : \A k \in kept : i >= k
                 cuts == {i \in 1 .. end : name[i] \in seps}
                 start == IF cuts = {} THEN 1
                          ELSE 1 + CHOOSE i \in cuts : \A k \in cuts : i >= k
             IN  SubSeq(name, start, end)

\* the characters of /[<>:"/\\|?*\u0000-\u001F]/
Forbidden == {60, 62, 58, 34, 47, 92, 124, 63, 42} \cup (0 .. 31)

\* safeBasename
SafeBasename(name, win32) ==
    LET base == Basename(name, win32)
    IN  [i \in 1 .. Len(base) |-> IF base[i] \in Forbidden THEN 95 ELSE base[i]]

\* a path: a directory (its segments) and an entry of it, <<>> for the
\* directory itself
NoPath == [dir |-> <<>>, entry |-> <<>>]

\* path.join(dir, fileName) for a fileName without separators: "" and "."
\* are dir, ".." is its parent
PathJoin(dir, fileName) ==
    IF fileName \in {<<>>, <<46>>} THEN [dir |-> dir, entry |-> <<>>]
    ELSE IF fileName = <<46, 46>> THEN [dir |-> SubSeq(dir, 1, Len(dir) - 1), entry |-> <<>>]
    ELSE [dir |-> dir, entry |-> fileName]

\* fs.existsSync(fullPath) for a path made from the directory of job jobId
ExistsSync(jobId, fullPath) ==
    /\ disk[jobId].exists
    /\ fullPath.entry # <<>> => fullPath.dir = JobDir(jobId) /\ fullPath.entry \in disk[jobId].files

\* the orders in which fs.readdirSync may list a set of files
Listings(files) ==
    {order \in [1 .. Cardinality(files) -> files] :
        \A i, k \in 1 .. Cardinality(files) : i # k => order[i] # order[k]}

\* `/api/file/${jobId}/${encodeURIComponent(f)}`
DownloadUrl(jobId, name) == [jobId |-> jobId, name |-> EncodeURIComponent(name)]

\* a reply of GET /api/files (route "files") or GET /api/file (route "file"),
\* with the request it answers; path is the path tested and streamed
FileReply(route, jobId, name, win32, status, error, path, files) ==
    [route |-> route, jobId |-> jobId, name |-> name, win32 |-> win32,
     status |-> status, error |-> error, path |-> path, files |-> files,
     downloadUrls |-> [i \in 1 .. Len(files) |-> DownloadUrl(jobId, files[i])]]

\* GET /api/files/:jobId
FilesRequest(jobId) ==
    /\ \E files \in (IF jobId \in DOMAIN jobs /\ disk[jobId].exists
                     THEN Listings(disk[jobId].files) ELSE {<<>>}) :
          http' = Append(http,
                    IF jobId \notin DOMAIN jobs
                    THEN FileReply("files", jobId, <<>>, FALSE, 400, "Unknown jobId", NoPath, <<>>)
                    ELSE FileReply("files", jobId, <<>>, FALSE, 200, "", NoPath, files))
    /\ UNCHANGED <<jobs, child, replies, conn, sent, appended, fed, osVars, list, sideVars>>

\* GET /api/file/:jobId/:name
FileRequest(jobId, raw, win32) ==
    LET rawName == DecodeURIComponent(raw)
        fullPath == PathJoin(JobDir(jobId), SafeBasename(rawName[1], win32))
    IN  /\ http' = Append(http,
             IF rawName = <<>>
             THEN FileReply("file", jobId, raw, win32, 500, "URI malformed", NoPath, <<>>)
             ELSE IF jobId \notin DOMAIN jobs
             THEN FileReply("file", jobId, raw, win32, 400, "Unknown jobId", NoPath, <<>>)
             ELSE IF ~ExistsSync(jobId, fullPath)
             THEN FileReply("file", jobId, raw, win32, 404, "Not found", fullPath, <<>>)
             ELSE FileReply("file", jobId, raw, win32, 200, "", fullPath, <<>>))
        /\ UNCHANGED <<jobs, child, replies, conn, sent, appended, fed, osVars, list, sideVars>>

(* ----------------------------- GET /api/list -------------------------- *)

\* The output of yt-dlp --flat-playlist --dump-json is text over "\n", "\r"
\* and four more units: OpenA is {"id":"aaaaaaaaaaa","title":"t", OpenB is
\* {"id":"bbbbbbbbbbb", OpenShort is {"id":"a", and CloseBrace is }.
Opens == {OpenA, OpenB, OpenShort}

ListUnits == Opens \cup {CloseBrace, LF, CR}

\* the chunks the child's stdout delivers
ListChunks == UNION {[1 .. n -> ListUnits] : n \in 1 .. MaxListChunkLen}

\* obj?.id of an object that starts with `open`
IdOf(open) == IF open = OpenA THEN IdA ELSE IF open = OpenB THEN IdB ELSE IdShort

\* String(obj?.title || "")
TitleOf(open) == IF open = OpenA THEN <<116>> ELSE <<>>

\* safeParseJson: <<value>>, or <<>> when JSON.parse throws
SafeParseJson(text) ==
    IF Len(text) = 2 /\ text[1] \in Opens /\ text[2] = CloseBrace
    THEN <<[id |-> IdOf(text[1]), title |-> TitleOf(text[1])]>>
    ELSE <<>>

\* String.prototype.trim on a text of code units
TrimText(text) ==
    LET kept == {i \in 1 .. Len(text) : text[i] \notin {32, 9, LF, CR}}
    IN  IF kept = {} THEN <<>>
        ELSE SubSeq(text, CHOOSE i \in kept : \A k \in kept : i <= k,
                          CHOOSE i \in kept : \A k \in kept : i >= k)

\* buffer.split(/\r?\n/) without its last piece: the pieces that a line
\* terminator ends (the empty ones left out: the loop skips them)
TerminatedLines(buffer) ==
    SelectSeq([i \in 1 .. Len(buffer) |->
                  IF (i = 1 \/ buffer[i - 1] = LF) /\ NextLF(buffer, i) <= Len(buffer)
                  THEN PieceAt(buffer, i) ELSE <<>>],
              NonEmpty)

\* faulty variant: nothing is carried over to the next chunk
RemainderDropped(buffer) == <<>>

\* lines.pop() || "": the piece after the last line terminator
Remainder(buffer) ==
    LET ends == {i \in 1 .. Len(buffer) : buffer[i] = LF}
    IN  IF ends = {} THEN buffer
        ELSE SubSeq(buffer, 1 + (CHOOSE i \in ends : \A k \in ends : i >= k), Len(buffer))

\* the body of the loop over the lines of a chunk
PushVideo(videos, line) ==
    LET trimmed == TrimText(line)
        parsed == SafeParseJson(trimmed)
    IN  IF trimmed = <<>> THEN videos
        ELSE IF parsed = <<>> THEN videos
        ELSE IF ~IsValidYtId(parsed[1].id) THEN videos
        ELSE Append(videos, [id |-> parsed[1].id, title |-> parsed[1].title,
                             url |-> BuildVideoUrlFromId(parsed[1].id)])

\* for (const line of lines) ...
RECURSIVE PushVideos(_, _)
PushVideos(videos, lines) ==
    IF lines = <<>> THEN videos
    ELSE PushVideos(PushVideo(videos, lines[1]), Tail(lines))

ListUnchanged ==
    UNCHANGED <<jobs, child, replies, conn, sent, appended, fed, osVars, http, sideVars>>

\* ytDlpCommand: resolveYtDlpBinary("yt-dlp")
YtDlpCommand == "yt-dlp"

\* the exception the spawner throws, or the child's 'error' event carries
SpawnFailure == [code |-> "ENOENT", message |-> "spawn yt-dlp ENOENT"]

ConfigHint == "Set YTDLP_BIN to the full path to yt-dlp.exe."

\* String.prototype.trim on a message given as its parts: the parts that are
\* empty or a space are dropped at both ends
TrimParts(parts) ==
    LET kept == {i \in 1 .. Len(parts) : parts[i] \notin {"", " "}}
    IN  IF kept = {} THEN <<>>
        ELSE SubSeq(parts, CHOOSE i \in kept : \A k \in kept : i <= k,
                           CHOOSE i \in kept : \A k \in kept : i >= k)

\* `${exitCode}` of a close code: <<>> is null (the child was killed)
CodeText(code) == IF code = <<>> THEN "null" ELSE ToString(code[1])

\* the child emitted the event: its listener was called
Emitted(request, event) == [request EXCEPT !.events = Append(@, event)]

\* faulty variant: the code after the await runs for every resolve
ResolveAgain(request, continued) == continued

\* await new Promise((resolve) => { child.on("close", ...); child.on("error", ...) }):
\* the first resolve settles the promise and the code after the await runs
\* (continued); a resolve of a settled promise does nothing
Resolve(request, continued) ==
    IF request.state = "running" THEN continued ELSE request

\* badRequest(res, message): json(res, 400, { error: message })
BadRequest(request, message) ==
    [request EXCEPT !.state = "replied", !.status = 400, !.error = message,
                    !.responses = @ + 1]

\* internalError(res, message): json(res, 500, { error: message })
InternalError(request, message) ==
    [request EXCEPT !.state = "replied", !.status = 500, !.error = message,
                    !.responses = @ + 1]

\* the message of GET /api/list when the spawner throws
FailedToStart(e) ==
    TrimParts(<<"Failed to start yt-dlp (", YtDlpCommand, "). ", ConfigHint, " ", e.message>>)

\* faulty variant: the message says nothing of the binary path
FailedToRunNoHint(err) ==
    TrimParts(<<"Failed to run yt-dlp (", YtDlpCommand, "): ", err.code, " ", err.message, ".">>)

\* the message of GET /api/list when the child emits 'error'
FailedToRun(err) ==
    TrimParts(<<"Failed to run yt-dlp (", YtDlpCommand, "): ", err.code, " ",
                err.message, ". ", ConfigHint>>)

\* `yt-dlp failed (exit ${exitCode}). ${stderr.trim()}`.trim()
ExitFailure(code, stderr) ==
    TrimParts(<<"yt-dlp failed (exit ", CodeText(code), ").", " ">> \o Trim(stderr))

\* the arguments GET /api/list passes to the spawner
ListArgs(url) == <<Arg("--flat-playlist"), Arg("--dump-json"), Arg("--yes-playlist"), url>>

\* GET /api/list?url=... up to the spawn of the child
ListRequested(request, url, spawnThrows) ==
    LET asked == [request EXCEPT !.url = url]
    IN  IF Trim(url) = <<>> THEN BadRequest(asked, <<"Missing url">>)
        ELSE IF spawnThrows
        THEN InternalError([asked EXCEPT !.args = ListArgs(Trim(url)), !.exit = "throw"],
                           FailedToStart(SpawnFailure))
        ELSE [asked EXCEPT !.state = "running", !.args = ListArgs(Trim(url))]

\* child.stdout.on("data", ...)
ListFed(request, chunk) ==
    [request EXCEPT
        !.videos = PushVideos(@, TerminatedLines(request.buffer \o chunk)),
        !.buffer = Remainder(request.buffer \o chunk),
        !.stdout = @ \o chunk]

\* child.stderr.on("data", ...): stderr += d
ListStderrFed(request, d) == [request EXCEPT !.stderr = @ \o d]

\* child.on("error", ...): the promise resolves with { __error }
ListErrored(request) ==
    InternalError([request EXCEPT !.exit = "error"], FailedToRun(SpawnFailure))

\* child.on("close", ...): the promise resolves with the exit code
ListClosed(request, code) ==
    IF code = <<0>>
    THEN [request EXCEPT !.state = "replied", !.status = 200, !.exit = "close 0",
                         !.responses = @ + 1]
    ELSE InternalError([request EXCEPT !.exit = "close"], ExitFailure(code, request.stderr))

ListRequest(url, spawnThrows) ==
    /\ list.state = "idle"
    /\ list' = ListRequested(list, url, spawnThrows)
    /\ ListUnchanged

ListData(chunk) ==
    /\ list.state = "running"
    /\ list' = ListFed(list, chunk)
    /\ ListUnchanged

ListError ==
    /\ list.state = "running"
    /\ list' = Emitted(Resolve(list, ListErrored(list)), "error")
    /\ ListUnchanged

ListClose(code) ==
    /\ list.state = "running"
    /\ list' = Emitted(Resolve(list, ListClosed(list, code)), "close")
    /\ ListUnchanged

(* --------------------------- GET /api/playlist ------------------------ *)

\* faulty variant: the playlist is not flattened
PlaylistArgsNoFlat(url) == <<Arg("--dump-json"), Arg("--yes-playlist"), url>>

\* the arguments GET /api/playlist passes to the spawner
PlaylistArgs(url) ==
    <<Arg("--flat-playlist"), Arg("--dump-json"), Arg("--yes-playlist"), url>>

\* GET /api/playlist?url=... up to the spawn of the child
PlaylistRequested(request, url, spawnThrows) ==
    LET asked == [request EXCEPT !.url = url]
        trimmed == Trim(url)
    IN  IF trimmed = <<>> THEN BadRequest(asked, <<"Missing url">>)
        ELSE IF spawnThrows
        THEN InternalError(
                 [asked EXCEPT !.args = PlaylistArgs(trimmed), !.exit = "throw"],
                 TrimParts(<<"Failed to start yt-dlp (", YtDlpCommand, "). ",
                             "Set YTDLP_BIN to the full path to yt-dlp.exe.", " ",
                             SpawnFailure.message>>))
        ELSE [asked EXCEPT !.state = "running", !.args = PlaylistArgs(trimmed)]

\* child.stdout.on("data", ...) of GET /api/playlist
PlaylistFed(request, chunk) ==
    LET buffer == request.buffer \o chunk
    IN  [request EXCEPT !.videos = PushVideos(@, TerminatedLines(buffer)),
                        !.buffer = Remainder(buffer),
                        !.stdout = @ \o chunk]

\* child.stderr.on("data", ...) of GET /api/playlist
PlaylistStderrFed(request, d) == [request EXCEPT !.stderr = @ \o d]

\* child.on("error", ...) of GET /api/playlist
PlaylistErrored(request) ==
    InternalError(
        [request EXCEPT !.exit = "error"],
        TrimParts(<<"Failed to run yt-dlp (", YtDlpCommand, "): ", SpawnFailure.code, " ",
                    SpawnFailure.message, ". ",
                    "Set YTDLP_BIN to the full path to yt-dlp.exe.">>))

\* child.on("close", ...) of GET /api/playlist
PlaylistClosed(request, code) ==
    IF code # <<0>>
    THEN InternalError(
             [request EXCEPT !.exit = "close"],
             TrimParts(<<"yt-dlp failed (exit ", CodeText(code), ").", " ">>
                       \o Trim(request.stderr)))
    ELSE [request EXCEPT !.state = "replied", !.status = 200, !.exit = "close 0",
                         !.responses = @ + 1]

\* The two endpoints side by side: each request is sent to both, and the
\* two children behave alike (same chunks, same events, in the same order).
AliasUnchanged ==
    UNCHANGED <<jobs, child, replies, conn, sent, appended, fed, osVars, http, probe, cli>>

AliasRunning == list.state = "running" \/ playlist.state = "running"

AliasRequest(url, spawnThrows) ==
    /\ list.state = "idle" /\ playlist.state = "idle"
    /\ list' = ListRequested(list, url, spawnThrows)
    /\ playlist' = PlaylistRequested(playlist, url, spawnThrows)
    /\ AliasUnchanged

AliasData(chunk) ==
    /\ AliasRunning
    /\ list' = IF list.state = "running" THEN ListFed(list, chunk) ELSE list
    /\ playlist' = IF playlist.state = "running" THEN PlaylistFed(playlist, chunk)
                   ELSE playlist
    /\ AliasUnchanged

AliasStderr(d) ==
    /\ AliasRunning
    /\ list' = IF list.state = "running" THEN ListStderrFed(list, d) ELSE list
    /\ playlist' = IF playlist.state = "running" THEN PlaylistStderrFed(playlist, d)
                   ELSE playlist
    /\ AliasUnchanged

AliasError ==
    /\ AliasRunning
    /\ list' = Emitted(Resolve(list, ListErrored(list)), "error")
    /\ playlist' = Emitted(Resolve(playlist, PlaylistErrored(playlist)), "error")
    /\ AliasUnchanged

AliasClose(code) ==
    /\ AliasRunning
    /\ list' = Emitted(Resolve(list, ListClosed(list, code)), "close")
    /\ playlist' = Emitted(Resolve(playlist, PlaylistClosed(playlist, code)), "close")
    /\ AliasUnchanged

(* ---------------------------- GET /api/doctor ------------------------- *)

\* The text a child of GET /api/doctor or GET /api/info writes is a sequence
\* of units, each a string: " " is white space, "{" opens a JSON object with
\* the title "t", the id "v" and a formats array, "}" closes the array and
\* the object, and every other unit is one entry of the formats array, named
\* by its height: {"height":720} is "720", a format without a height is "{}".
\* Outside an object "null" is the JSON text null.
HeightUnits == {"720", "1080", "0", "-1", "null", "1e999", "str", "{}"}

ProbeUnits == {"{", "}", " "} \cup HeightUnits

ErrUnits == {"e", " "}

ProbeUnchanged ==
    UNCHANGED <<jobs, child, replies, conn, sent, appended, fed, osVars, http, list,
                playlist, cli>>

\* json(res, 200, { ok, ytDlpCommand, message }) of GET /api/doctor
DoctorReply(request, ok, message) ==
    [request EXCEPT !.state = "replied", !.status = 200, !.ok = ok,
                    !.ytDlpCommand = YtDlpCommand, !.message = message,
                    !.responses = @ + 1]

\* `Cannot spawn yt-dlp: ${code} ${message}`.trim()
CannotSpawn(e) == TrimParts(<<"Cannot spawn yt-dlp: ", e.code, " ", e.message>>)

\* `yt-dlp exited ${result.code}. ${String(err || out).trim()}`.trim()
Exited(code, out, err) ==
    TrimParts(<<"yt-dlp exited ", CodeText(code), ".", " ">>
              \o Trim(IF err # <<>> THEN err ELSE out))

\* `yt-dlp ${String(out).trim()}`.trim()
VersionMessage(out) == TrimParts(<<"yt-dlp", " ">> \o Trim(out))

\* GET /api/doctor up to the spawn of yt-dlp --version
DoctorRequested(request, spawnThrows) ==
    LET asked == [request EXCEPT !.route = "doctor", !.args = <<Arg("--version")>>]
    IN  IF spawnThrows
        THEN DoctorReply([asked EXCEPT !.exit = "throw"], FALSE,
                         <<"Failed to start yt-dlp: ", SpawnFailure.message>>)
        ELSE [asked EXCEPT !.state = "running"]

\* child.on("error", ...): the promise resolves with { error }
DoctorErrored(request) ==
    DoctorReply([request EXCEPT !.exit = "error"], FALSE, CannotSpawn(SpawnFailure))

\* faulty variant: every exit of the child counts as a success
DoctorClosedAnyCode(request, code) ==
    DoctorReply([request EXCEPT !.exit = IF code = <<0>> THEN "close 0" ELSE "close"],
                TRUE, VersionMessage(request.stdout))

\* child.on("close", ...): the promise resolves with { code }
DoctorClosed(request, code) ==
    IF code # <<0>>
    THEN DoctorReply([request EXCEPT !.exit = "close"], FALSE,
                     Exited(code, request.stdout, request.stderr))
    ELSE DoctorReply([request EXCEPT !.exit = "close 0"], TRUE,
                     VersionMessage(request.stdout))

DoctorRequest(spawnThrows) ==
    /\ probe.state = "idle"
    /\ probe' = DoctorRequested(probe, spawnThrows)
    /\ ProbeUnchanged

\* child.stdout.on("data", (d) => (out += d)) and the same on stderr
ProbeData(stream, d) ==
    /\ probe.state = "running"
    /\ probe' = IF stream = "stdout" THEN [probe EXCEPT !.stdout = Append(@, d)]
                ELSE [probe EXCEPT !.stderr = Append(@, d)]
    /\ ProbeUnchanged

DoctorError ==
    /\ probe.route = "doctor" /\ probe.state = "running"
    /\ probe' = Emitted(Resolve(probe, DoctorErrored(probe)), "error")
    /\ ProbeUnchanged

DoctorClose(code) ==
    /\ probe.route = "doctor" /\ probe.state = "running"
    /\ probe' = Emitted(Resolve(probe, DoctorClosed(probe, code)), "close")
    /\ ProbeUnchanged

(* ----------------------------- GET /api/info -------------------------- *)

\* f?.height of the format a unit stands for: [kind, n] with kind the
\* typeof of the value ("undefined" for a format without a height, "object"
\* for null); 1e999 is read by JSON.parse as Infinity
HeightOf(unit) ==
    IF unit = "720" THEN [kind |-> "number", finite |-> TRUE, n |-> 720]
    ELSE IF unit = "1080" THEN [kind |-> "number", finite |-> TRUE, n |-> 1080]
    ELSE IF unit = "0" THEN [kind |-> "number", finite |-> TRUE, n |-> 0]
    ELSE IF unit = "-1" THEN [kind |-> "number", finite |-> TRUE, n |-> -1]
    ELSE IF unit = "1e999" THEN [kind |-> "number", finite |-> FALSE, n |-> 0]
    ELSE IF unit = "str" THEN [kind |-> "string", finite |-> FALSE, n |-> 0]
    ELSE IF unit = "null" THEN [kind |-> "object", finite |-> FALSE, n |-> 0]
    ELSE [kind |-> "undefined", finite |-> FALSE, n |-> 0]

NotSpace(unit) == unit # " "

\* safeParseJson(stdout.trim()): <<value>>, or <<>> when JSON.parse throws.
\* A value is [title, id, formats]; a JSON text that is a single number,
\* string, null or {} has none of the three fields.
ParseInfo(text) ==
    LET n == Len(text)
        inner == SubSeq(text, 2, n - 1)
    IN  IF n = 1 /\ text[1] \in HeightUnits
        THEN <<[title |-> "", id |-> "", formats |-> <<>>]>>
        ELSE IF /\ n >= 2 /\ text[1] = "{" /\ text[n] = "}"
                /\ \A i \in 1 .. Len(inner) : inner[i] \in HeightUnits \cup {" "}
        THEN <<[title |-> "t", id |-> "v", formats |-> SelectSeq(inner, NotSpace)]>>
        ELSE <<>>

\* heights.add(h) when h is a finite number above zero: a Set keeps one
\* copy of a value, in insertion order
AddHeight(heights, unit) ==
    LET h == HeightOf(unit)
    IN  IF h.kind = "number" /\ h.finite /\ h.n > 0 /\ ~\E i \in 1 .. Len(heights) : heights[i] = h.n
        THEN Append(heights, h.n)
        ELSE heights

\* for (const f of formats) ...
RECURSIVE AddHeights(_, _)
AddHeights(heights, formats) ==
    IF formats = <<>> THEN heights
    ELSE AddHeights(AddHeight(heights, formats[1]), Tail(formats))

\* faulty variant: the comparator of an ascending sort
Ascending(a, b) == a - b

\* (a, b) => b - a
Descending(a, b) == b - a

\* one step of the sort: x is put before the first element it must precede
InsertSorted(sorted, x) ==
    LET after == {i \in 1 .. Len(sorted) : Descending(x, sorted[i]) < 0}
        at == IF after = {} THEN Len(sorted) + 1
              ELSE CHOOSE i \in after : \A k \in after : i <= k
    IN  SubSeq(sorted, 1, at - 1) \o <<x>> \o SubSeq(sorted, at, Len(sorted))

\* Array.prototype.sort with the comparator above
RECURSIVE SortHeights(_)
SortHeights(heights) ==
    IF heights = <<>> THEN <<>>
    ELSE InsertSorted(SortHeights(SubSeq(heights, 1, Len(heights) - 1)),
                      heights[Len(heights)])

\* extractQualitiesFromYtDlpInfo(info)
ExtractQualitiesFromYtDlpInfo(info) == SortHeights(AddHeights(<<>>, info.formats))

\* classifyNotAllowedMessage: each of its three returns is this text
ClassifyNotAllowedMessage(stderrOrOut) ==
    <<"Not allowed to download this video by the creator">>

\* json(res, 200, { ok: false, message })
InfoFailure(request, message) ==
    [request EXCEPT !.state = "replied", !.status = 200, !.ok = FALSE, !.message = message,
                    !.responses = @ + 1]

InfoArgs(url) == <<Arg("-J"), Arg("--no-warnings"), Arg("--yes-playlist"), url>>

\* GET /api/info?url=... up to the spawn of the child
InfoRequested(request, url, spawnThrows) ==
    LET asked == [request EXCEPT !.route = "info"]
    IN  IF Trim(url) = <<>> THEN BadRequest(asked, <<"Missing url">>)
        ELSE IF spawnThrows
        THEN InternalError([asked EXCEPT !.args = InfoArgs(Trim(url)), !.exit = "throw"],
                           FailedToStart(SpawnFailure))
        ELSE [asked EXCEPT !.state = "running", !.args = InfoArgs(Trim(url))]

\* child.on("error", ...): the promise resolves with { __error }
InfoErrored(request) ==
    InfoFailure([request EXCEPT !.exit = "error"],
                ClassifyNotAllowedMessage(TrimParts(<<SpawnFailure.code, " ", SpawnFailure.message>>)))

\* child.on("close", ...): the promise resolves with the exit code
InfoClosed(request, code) ==
    LET parsed == ParseInfo(Trim(request.stdout))
    IN  IF code # <<0>>
        THEN InfoFailure([request EXCEPT !.exit = "close"],
                         ClassifyNotAllowedMessage(IF request.stderr # <<>> THEN request.stderr
                                                   ELSE request.stdout))
        ELSE IF parsed = <<>>
        THEN InfoFailure([request EXCEPT !.exit = "close 0"], <<"Could not read video info">>)
        ELSE [request EXCEPT !.state = "replied", !.exit = "close 0", !.status = 200,
                             !.ok = TRUE, !.title = parsed[1].title, !.id = parsed[1].id,
                             !.qualities = ExtractQualitiesFromYtDlpInfo(parsed[1]),
                             !.mp3 = TRUE, !.responses = @ + 1]

InfoRequest(url, spawnThrows) ==
    /\ probe.state = "idle"
    /\ probe' = InfoRequested(probe, url, spawnThrows)
    /\ ProbeUnchanged

InfoError ==
    /\ probe.route = "info" /\ probe.state = "running"
    /\ probe' = Emitted(Resolve(probe, InfoErrored(probe)), "error")
    /\ ProbeUnchanged

InfoClose(code) ==
    /\ probe.route = "info" /\ probe.state = "running"
    /\ probe' = Emitted(Resolve(probe, InfoClosed(probe, code)), "close")
    /\ ProbeUnchanged

(* ------------------- the second event of a child --------------------- *)

\* A child emits 'error' and 'close' at most once each, in either order.
\* The listeners of both stay attached after the promise is settled, so the
\* second event calls resolve once more.

\* 'error' of the child of GET /api/list after its 'close'
ListLateError ==
    /\ list.state = "replied" /\ list.events = <<"close">>
    /\ list' = Emitted(Resolve(list, ListErrored(list)), "error")
    /\ ListUnchanged

\* 'close' of the child of GET /api/list after its 'error'
ListLateClose(code) ==
    /\ list.state = "replied" /\ list.events = <<"error">>
    /\ list' = Emitted(Resolve(list, ListClosed(list, code)), "close")
    /\ ListUnchanged

\* 'error' of the child of GET /api/doctor or GET /api/info after its 'close'
ProbeLateError ==
    /\ probe.state = "replied" /\ probe.events = <<"close">>
    /\ probe' = Emitted(Resolve(probe, IF probe.route = "doctor" THEN DoctorErrored(probe)
                                       ELSE InfoErrored(probe)),
                        "error")
    /\ ProbeUnchanged

\* 'close' of the child of GET /api/doctor or GET /api/info after its 'error'
ProbeLateClose(code) ==
    /\ probe.state = "replied" /\ probe.events = <<"error">>
    /\ probe' = Emitted(Resolve(probe, IF probe.route = "doctor" THEN DoctorClosed(probe, code)
                                       ELSE InfoClosed(probe, code)),
                        "close")
    /\ ProbeUnchanged

(* ------------------------------ parseArgs ----------------------------- *)

\* A command-line argument is the sequence of its characters.
HelpLong == <<"-", "-", "h", "e", "l", "p">>
HelpShort == <<"-", "h">>
NoOpenFlag == <<"-", "-", "n", "o", "-", "o", "p", "e", "n">>
OpenFlag == <<"-", "-", "o", "p", "e", "n">>
HostFlag == <<"-", "-", "h", "o", "s", "t">>
PortFlag == <<"-", "-", "p", "o", "r", "t">>
HostPrefix == <<"-", "-", "h", "o", "s", "t", "=">>
PortPrefix == <<"-", "-", "p", "o", "r", "t", "=">>

\* the values given to --host and --port: "", "h", "80" and "8x"
ArgValues == {<<>>, <<"h">>, <<"8", "0">>, <<"8", "x">>}

\* the arguments of a command line
ArgTokens ==
    {HelpLong, HelpShort, NoOpenFlag, OpenFlag, HostFlag, PortFlag}
        \cup {HostPrefix \o v : v \in ArgValues}
        \cup {PortPrefix \o v : v \in ArgValues}
        \cup ArgValues

\* process.argv: the node binary, the script, and up to MaxArgs arguments
Argvs == {<<<<"n", "o", "d", "e">>, <<"c", "l", "i", ".", "m", "j", "s">>>> \o rest : rest \in UNION {[1 .. n -> ArgTokens] : n \in 0 .. MaxArgs}}

\* a property of `out`: not set, set to undefined, or set to the value v
Unset(v) == [set |-> FALSE, defined |-> FALSE, v |-> v]
Undefined(v) == [set |-> TRUE, defined |-> FALSE, v |-> v]
Value(v) == [set |-> TRUE, defined |-> TRUE, v |-> v]

\* const out = {}
EmptyOut ==
    [help |-> Unset(FALSE), open |-> Unset(FALSE), host |-> Unset(<<>>),
     port |-> Unset([nan |-> FALSE, n |-> 0])]

\* a.startsWith(prefix)
StartsWith(a, prefix) == Len(a) >= Len(prefix) /\ SubSeq(a, 1, Len(prefix)) = prefix

\* faulty variant: the "=" is left in the value
SliceFromEquals(a, prefix) == SubSeq(a, Len(prefix), Len(a))

\* a.slice(prefix.length)
SliceAfter(a, prefix) == SubSeq(a, Len(prefix) + 1, Len(a))

IsDigit(ch) == ch \in {"0", "1", "2", "3", "4", "5", "6", "7", "8", "9"}

DigitValue(ch) == CHOOSE d \in 0 .. 9 : ToString(d) = ch

\* the value of a string of decimal digits
RECURSIVE Decimal(_)
Decimal(str) ==
    IF str = <<>> THEN 0
    ELSE 10 * Decimal(SubSeq(str, 1, Len(str) - 1)) + DigitValue(str[Len(str)])

\* Number(str) for a string of the characters used here: "" is 0, a string
\* of digits is its value and anything else is NaN
NumberOfString(str) ==
    IF \A i \in 1 .. Len(str) : IsDigit(str[i])
    THEN [nan |-> FALSE, n |-> Decimal(str)]
    ELSE [nan |-> TRUE, n |-> 0]

\* args[++i] as the host: undefined past the end of the array
HostAt(args, i) == IF i <= Len(args) THEN Value(args[i]) ELSE Undefined(<<>>)

\* Number(args[++i]): Number(undefined) is NaN
PortAt(args, i) ==
    IF i <= Len(args) THEN Value(NumberOfString(args[i]))
    ELSE Value([nan |-> TRUE, n |-> 0])

\* the loop of parseArgs from index i on
RECURSIVE ParseFrom(_, _, _)
ParseFrom(args, i, out) ==
    IF i > Len(args) THEN out
    ELSE LET a == args[i]
         IN  IF a = HelpLong \/ a = HelpShort
             THEN ParseFrom(args, i + 1, [out EXCEPT !.help = Value(TRUE)])
             ELSE IF a = NoOpenFlag
             THEN ParseFrom(args, i + 1, [out EXCEPT !.open = Value(FALSE)])
             ELSE IF a = OpenFlag
             THEN ParseFrom(args, i + 1, [out EXCEPT !.open = Value(TRUE)])
             ELSE IF a = HostFlag
             THEN ParseFrom(args, i + 2, [out EXCEPT !.host = HostAt(args, i + 1)])
             ELSE IF StartsWith(a, HostPrefix)
             THEN ParseFrom(args, i + 1,
                            [out EXCEPT !.host = Value(SliceAfter(a, HostPrefix))])
             ELSE IF a = PortFlag
             THEN ParseFrom(args, i + 2, [out EXCEPT !.port = PortAt(args, i + 1)])
             ELSE IF StartsWith(a, PortPrefix)
             THEN ParseFrom(args, i + 1,
                            [out EXCEPT !.port =
                                Value(NumberOfString(SliceAfter(a, PortPrefix)))])
             ELSE ParseFrom(args, i + 1, out)

\* parseArgs(argv)
ParseArgs(argv) ==
    LET args == SubSeq(argv, 3, Len(argv))
        out == ParseFrom(args, 1, EmptyOut)
    IN  IF out.port.set /\ out.port.defined /\ out.port.v.nan
        THEN [out EXCEPT !.port = Undefined([nan |-> FALSE, n |-> 0])]
        ELSE out

\* a call of parseArgs
ParseArgsCall(argv) ==
    /\ ~cli.called
    /\ cli' = [called |-> TRUE, argv |-> argv, out |-> ParseArgs(argv)]
    /\ UNCHANGED <<jobs, child, replies, conn, sent, appended, fed, osVars, http, list,
                   playlist, probe>>

(* --------------------------- specifications --------------------------- *)

Next ==
    \/ \E body \in Bodies, env \in SpecEnvs :
          Len(replies) < MaxPosts /\ PostDownload(body, env)
    \/ \E jobId \in JobIds, in \in DataInputs :
          Len(fed) < MaxData /\ OnData(jobId, in.stream, in.chunk)
    \/ \E jobId \in JobIds : OnChildError(jobId)
    \/ \E jobId \in JobIds, code \in CloseCodes : OnChildClose(jobId, code)
    \/ \E jobId \in JobIds : EventsRequest(jobId)
    \/ \E res \in Conns : OnReqClose(res)

Spec == Init /\ [][Next]_vars

\* one job fed with large chunks of numbered lines, one listener
NextLog ==
    \/ jobs = <<>> /\ PostDownload(GoodBody, Launches)
    \/ \E k \in BurstSizes :
          Len(fed) < MaxBursts /\ OnData(1, "stdout", BigChunk(Len(appended[1]), k))
    \/ OnChildClose(1, <<0>>)
    \/ conn[1].status = 0 /\ EventsRequest(1)
    \/ OnReqClose(1)

LogSpec == Init /\ [][NextLog]_vars

\* one job fed with every small chunk, no listener
NextFramer ==
    \/ jobs = <<>> /\ PostDownload(GoodBody, Launches)
    \/ \E stream \in Streams, chunk \in SmallChunks :
          Len(fed) < MaxFeeds /\ OnData(1, stream, chunk)
    \/ OnChildClose(1, <<0>>)

FramerSpec == Init /\ [][NextFramer]_vars

\* the child of a launched job eventually emits 'close'
FairSpec ==
    /\ Spec
    /\ \A jobId \in JobIds : WF_vars(\E code \in CloseCodes : OnChildClose(jobId, code))

\* one POST /api/download with every body and platform outcome, and the
\* events of its child
NextPost ==
    \/ replies = <<>> /\ \E body \in AllBodies, env \in Envs : PostDownload(body, env)
    \/ OnChildError(1)
    \/ \E code \in CloseCodes : OnChildClose(1, code)

PostSpec == Init /\ [][NextPost]_vars

\* one job, the files its child writes, and the requests for its files and
\* its events
NextFile ==
    \/ replies = <<>> /\ \E env \in Envs : PostDownload(GoodBody, env)
    \/ \E name \in DiskNames : ChildWritesFile(1, name)
    \/ OnChildClose(1, <<0>>)
    \/ Len(http) < MaxGets /\ \E jobId \in JobIds : FilesRequest(jobId)
    \/ /\ Len(http) < MaxGets
       /\ \E jobId \in JobIds, raw \in RawNames, win32 \in BOOLEAN :
             FileRequest(jobId, raw, win32)
    \/ \E jobId \in JobIds : EventsRequest(jobId)

FileSpec == Init /\ [][NextFile]_vars

\* one GET /api/list request and the events of its child
NextList ==
    \/ \E url \in Urls, spawnThrows \in BOOLEAN : ListRequest(url, spawnThrows)
    \/ \E chunk \in ListChunks :
          Len(list.stdout) + Len(chunk) <= MaxListText /\ ListData(chunk)
    \/ ListError
    \/ \E code \in CloseCodes \cup {<<1>>} : ListClose(code)

ListSpec == Init /\ [][NextList]_vars

\* one POST /api/download on a platform where reads and writes may fail
NextFault ==
    \/ replies = <<>> /\ \E body \in AllBodies, env \in AllEnvs : PostDownload(body, env)
    \/ OnChildError(1)
    \/ \E code \in CloseCodes : OnChildClose(1, code)

FaultSpec == Init /\ [][NextFault]_vars

\* POST /api/download requests whose job ids are any values of randomBytes
NextId ==
    \/ \E body \in Bodies, env \in SpecEnvs, jobId \in RandomJobIds :
          Len(replies) < MaxPosts /\ PostDownloadAs(body, env, jobId)
    \/ \E jobId \in JobIds : EventsRequest(jobId)
    \/ \E res \in Conns : OnReqClose(res)

IdSpec == Init /\ [][NextId]_vars

\* one request sent to GET /api/list and to GET /api/playlist
NextAlias ==
    \/ \E url \in Urls, spawnThrows \in BOOLEAN : AliasRequest(url, spawnThrows)
    \/ \E chunk \in ListChunks :
          Len(list.stdout) + Len(chunk) <= MaxAliasText /\ AliasData(chunk)
    \/ \E d \in ErrUnits : Len(list.stderr) < MaxAliasErr /\ AliasStderr(<<d>>)
    \/ AliasError
    \/ \E code \in CloseCodes \cup {<<1>>} : AliasClose(code)

AliasSpec == Init /\ [][NextAlias]_vars

\* one call of parseArgs
NextArgs == ~cli.called /\ \E argv \in Argvs : ParseArgsCall(argv)

ArgsSpec == Init /\ [][NextArgs]_vars

\* one GET /api/doctor request and its child
NextDoctor ==
    \/ \E spawnThrows \in BOOLEAN : DoctorRequest(spawnThrows)
    \/ \E d \in ProbeUnits :
          Len(probe.stdout) + Len(probe.stderr) < MaxDoctorText /\ ProbeData("stdout", d)
    \/ \E d \in ErrUnits :
          Len(probe.stdout) + Len(probe.stderr) < MaxDoctorText /\ ProbeData("stderr", d)
    \/ DoctorError
    \/ \E code \in CloseCodes \cup {<<1>>} : DoctorClose(code)

DoctorSpec == Init /\ [][NextDoctor]_vars

\* one GET /api/info request and its child
NextInfo ==
    \/ \E url \in Urls, spawnThrows \in BOOLEAN : InfoRequest(url, spawnThrows)
    \/ \E d \in ProbeUnits :
          Len(probe.stdout) + Len(probe.stderr) < MaxInfoText /\ ProbeData("stdout", d)
    \/ \E d \in ErrUnits :
          Len(probe.stdout) + Len(probe.stderr) < MaxInfoText /\ ProbeData("stderr", d)
    \/ InfoError
    \/ \E code \in CloseCodes \cup {<<1>>} : InfoClose(code)

InfoSpec == Init /\ [][NextInfo]_vars

\* two jobs at most, and every operation that reads or writes a registered
\* job: data, completion, a listener that attaches and detaches, file requests
NextRegistry ==
    \/ Len(replies) < MaxPosts /\ PostDownload(GoodBody, Launches)
    \/ \E jobId \in JobIds : fed = <<>> /\ OnData(jobId, "stdout", <<ChA, LF>>)
    \/ \E jobId \in JobIds : OnChildError(jobId)
    \/ \E jobId \in JobIds, code \in CloseCodes : OnChildClose(jobId, code)
    \/ \E jobId \in JobIds : conn[1].status = 0 /\ EventsRequest(jobId)
    \/ OnReqClose(1)
    \/ Len(http) < MaxGets /\ \E jobId \in JobIds : FilesRequest(jobId)
    \/ /\ Len(http) < MaxGets
       /\ \E jobId \in JobIds, win32 \in BOOLEAN : FileRequest(jobId, <<"a">>, win32)

RegistrySpec == Init /\ [][NextRegistry]_vars

\* one GET /api/list request and one GET /api/doctor or GET /api/info
\* request, and both events of their children in either order
NextReply ==
    \/ \E url \in Urls, spawnThrows \in BOOLEAN : ListRequest(url, spawnThrows)
    \/ \E spawnThrows \in BOOLEAN : DoctorRequest(spawnThrows)
    \/ \E url \in Urls, spawnThrows \in BOOLEAN : InfoRequest(url, spawnThrows)
    \/ list.stdout = <<>> /\ ListData(<<OpenA, CloseBrace, LF>>)
    \/ Len(probe.stdout) < MaxReplyText /\ \E d \in {"{", "}"} : ProbeData("stdout", d)
    \/ probe.stderr = <<>> /\ ProbeData("stderr", "e")
    \/ ListError
    \/ \E code \in CloseCodes \cup {<<1>>} : ListClose(code)
    \/ DoctorError
    \/ \E code \in CloseCodes \cup {<<1>>} : DoctorClose(code)
    \/ InfoError
    \/ \E code \in CloseCodes \cup {<<1>>} : InfoClose(code)
    \/ ListLateError
    \/ \E code \in CloseCodes \cup {<<1>>} : ListLateClose(code)
    \/ ProbeLateError
    \/ \E code \in CloseCodes \cup {<<1>>} : ProbeLateClose(code)

ReplySpec == Init /\ [][NextReply]_vars

(* ------------------------------ properties ---------------------------- *)

HasDone(events) == \E i \in 1 .. Len(events) : events[i].event = "done"

DoneCount(events) == Cardinality({i \in 1 .. Len(events) : events[i].event = "done"})

Last(s) == s[Len(s)]

\* the connections that hold an event stream of job jobId
StreamsOf(jobId) == {c \in Conns : conn[c].status = 200 /\ conn[c].jobId = jobId}

\* the number of lines replayed to a listener that attached when n lines had
\* been appended: the retained ones, at most ReplayTail of them
ReplayCount(n) == Min(ReplayTail, Min(n, LogCap))

\* the chunks of fed, joined in callback order
RECURSIVE JoinChunks(_)
JoinChunks(f) == IF f = <<>> THEN <<>> ELSE f[1].chunk \o JoinChunks(Tail(f))

\* the lines of the chunks of fed, chunk by chunk in callback order
RECURSIVE FramedLines(_)
FramedLines(f) == IF f = <<>> THEN <<>> ELSE SplitLines(f[1].chunk) \o FramedLines(Tail(f))

FedTo(jobId) == SelectSeq(fed, LAMBDA d : d.jobId = jobId)

IsDataLine(line) == line # SpawnErrorLine /\ line # FailedToStartLine

\* C1: when jobDone(jobId, c) runs, every listener then in the job's
\* sseClients is sent the 'done' event with exitCode c as its one 'done'
\* event and leaves the set, and a response that has been sent 'done' is
\* written no further event, whatever callbacks follow.
C1_DoneDelivered ==
    [][\A c \in Conns :
          /\ \A jobId \in DOMAIN jobs :
                (c \in jobs[jobId].sseClients /\ jobs'[jobId].done # jobs[jobId].done)
                    => /\ sent'[c] # <<>>
                       /\ Last(sent'[c]) = DoneEvent(jobs'[jobId].done[1])
                       /\ DoneCount(sent'[c]) = 1
                       /\ c \notin jobs'[jobId].sseClients
          /\ (conn[c].onClose /\ HasDone(sent[c])) => sent'[c] = sent[c]]_vars

C1_Witness ==
    \E c \in Conns :
        /\ conn[c].onClose
        /\ HasDone(sent[c])
        /\ child[conn[c].jobId].errored
        /\ child[conn[c].jobId].closed
        /\ IsDataLine(Last(appended[conn[c].jobId]))

\* C2: once job.done is set, no later step changes it (its exitCode stays,
\* and it is never absent again).
C2_DoneSetOnce ==
    [][\A jobId \in DOMAIN jobs :
          jobs[jobId].done # <<>> => jobs'[jobId].done = jobs[jobId].done]_vars

\* C3: on every /api/events response the 'done' event is the last event
\* written: no event follows it.
C3_DoneIsLast ==
    \A c \in Conns :
        \A i \in 1 .. Len(sent[c]) : sent[c][i].event = "done" => i = Len(sent[c])

C3_Witness ==
    \E c, d \in Conns :
        /\ conn[c].jobId = conn[d].jobId
        /\ conn[c].onClose /\ HasDone(sent[c])
        /\ conn[d].status = 200 /\ ~conn[d].onClose /\ Len(sent[d]) > 2
        /\ Len(appended[conn[d].jobId]) > conn[d].attachAt

\* C4: every listener registered in a job's sseClients eventually is sent
\* 'done' or has its own connection closed.
C4_ListenerNotified ==
    \A c \in Conns :
        (conn[c].onClose /\ ~conn[c].closed /\ ~HasDone(sent[c]))
            ~> (HasDone(sent[c]) \/ conn[c].closed)

\* C5: job.lines never holds more than 2000 lines, and once more than 2000
\* lines have been appended it is the last 2000 of them, in append order.
C5_LogIsLastLines ==
    \A jobId \in DOMAIN jobs :
        /\ Len(jobs[jobId].lines) <= LogCap
        /\ Len(appended[jobId]) > LogCap
              => jobs[jobId].lines =
                    SubSeq(appended[jobId], Len(appended[jobId]) - LogCap + 1,
                           Len(appended[jobId]))

C5_Witness ==
    \E jobId \in DOMAIN jobs :
        /\ Len(appended[jobId]) > LogCap + 1
        /\ Len(jobs[jobId].lines) = LogCap
        /\ jobs[jobId].lines[1] # appended[jobId][1]

\* C6: a listener that attaches when the log holds n lines is first sent
\* the last min(n, 250) of them, in order, and the event after those is a
\* line appended after the attach (or 'done'), never an older line.
C6_ReplayIsTail ==
    \A jobId \in DOMAIN jobs :
        \A c \in StreamsOf(jobId) :
            LET a == conn[c].attachAt
                r == ReplayCount(a)
            IN  /\ Len(sent[c]) >= r
                /\ \A i \in 1 .. r : sent[c][i] = LogEvent(appended[jobId][a - r + i])
                /\ Len(sent[c]) > r
                      => \/ sent[c][r + 1].event = "done"
                         \/ /\ Len(appended[jobId]) > a
                            /\ sent[c][r + 1] = LogEvent(appended[jobId][a + 1])

C6_Witness ==
    \E c \in Conns :
        /\ conn[c].status = 200
        /\ conn[c].attachAt > ReplayTail
        /\ Len(sent[c]) > ReplayTail + 1
        /\ sent[c][ReplayTail + 1].event = "log"

\* C7: while a listener is in sseClients, the events sent to it after the
\* replay are exactly the lines appended since it attached, in append
\* order; and the lines that come from data callbacks are in the log in the
\* order the callbacks fired, stdout and stderr alike.
C7_BroadcastInOrder ==
    \A jobId \in DOMAIN jobs :
        /\ \A c \in jobs[jobId].sseClients :
              LET a == conn[c].attachAt
                  r == ReplayCount(a)
                  n == Len(appended[jobId])
              IN  /\ Len(sent[c]) = r + (n - a)
                  /\ \A i \in 1 .. (n - a) :
                        sent[c][r + i] = LogEvent(appended[jobId][a + i])
        /\ SelectSeq(appended[jobId], IsDataLine) = FramedLines(FedTo(jobId))

C7_Witness ==
    \E jobId \in DOMAIN jobs :
        /\ Cardinality(jobs[jobId].sseClients) = 2
        /\ \E c \in jobs[jobId].sseClients : conn[c].attachAt > 0
        /\ \E c \in jobs[jobId].sseClients : Len(appended[jobId]) > conn[c].attachAt + 1
        /\ \A s \in Streams : \E i \in 1 .. Len(fed) : fed[i].jobId = jobId /\ fed[i].stream = s

\* C8: a listener that attaches to a terminal job is sent 'done' with the
\* recorded exitCode in that same handler call, its response is ended, and
\* it is not in sseClients then or ever after.
C8_LateListener ==
    [][\A c \in Conns :
          /\ (conn[c].status = 0 /\ conn'[c].status = 200
                /\ jobs[conn'[c].jobId].done # <<>>)
                => /\ sent'[c] # <<>>
                   /\ Last(sent'[c]) = DoneEvent(jobs[conn'[c].jobId].done[1])
                   /\ conn'[c].ended
                   /\ ~conn'[c].onClose
          /\ (conn'[c].status = 200 /\ ~conn'[c].onClose)
                => \A jobId \in DOMAIN jobs' : c \notin jobs'[jobId].sseClients]_vars

C8_Witness ==
    \E c \in Conns :
        /\ conn[c].status = 200 /\ ~conn[c].onClose /\ conn[c].ended
        /\ Last(sent[c]) = DoneEvent(0)
        /\ Len(sent[c]) > 1

\* C9: after the 'close' event of an /api/events request its response is in
\* no sseClients set and is written no further event; a 'close' that comes
\* after the job completed, or a second time, changes nothing.
C9_CloseDetaches ==
    [][\A c \in Conns :
          /\ conn'[c].closed => \A jobId \in DOMAIN jobs' : c \notin jobs'[jobId].sseClients
          /\ conn[c].closed => sent'[c] = sent[c]
          /\ (OnReqClose(c) /\ (conn[c].closed \/ jobs[conn[c].jobId].done # <<>>))
                => UNCHANGED <<jobs, sent, child, appended>>]_vars

C9_Witness ==
    \E c \in Conns :
        /\ conn[c].closed
        /\ ~HasDone(sent[c])
        /\ jobs[conn[c].jobId].done # <<>>
        /\ Len(appended[conn[c].jobId]) - conn[c].attachAt
              > Len(sent[c]) - ReplayCount(conn[c].attachAt)

\* C10: the lines appended to a job do not depend on how the text of a
\* stream is cut into chunks: they are the lines of the whole text.
C10_ChunkingIrrelevant ==
    \A jobId \in DOMAIN jobs :
        (\E s \in Streams : \A i \in 1 .. Len(fed) : fed[i].stream = s)
            => appended[jobId] = SplitLines(JoinChunks(FedTo(jobId)))

\* C11: the bulk list file is on disk only while the job's child process is
\* live: once the request is answered and no process runs (the request is
\* rejected, the spawner threw, or the child emitted 'error' or 'close') the
\* file is gone.
C11_TmpFileRemoved ==
    \A j \in JobIds :
        tmpFiles[j] # <<>> => child[j].spawned /\ ~child[j].errored /\ ~child[j].closed

\* C12: for a known job and every requested name, the path GET /api/file tests
\* for existence and streams is a direct child entry of the job's output
\* directory, never the directory itself or its parent.
C12_PathInsideJobDir ==
    \A i \in 1 .. Len(http) :
        http[i].route = "file" /\ http[i].status \in {200, 404} =>
            /\ http[i].path.dir = JobDir(http[i].jobId)
            /\ http[i].path.entry # <<>>

\* the arguments of a spawner call, as a set
ArgSet(args) == {args[i] : i \in 1 .. Len(args)}

\* an argument has `part` among its parts
HasPart(arg, part) == \E i \in 1 .. Len(arg) : arg[i] = part

\* an argument contains the text bestvideo[height<=h]
CapsHeight(arg, h) ==
    \E i \in 1 .. (Len(arg) - 2) :
        arg[i] = "bestvideo[height<=" /\ arg[i + 1] = ToString(h) /\ arg[i + 2] = "]"

\* C13: a download requested with videoOnly true, mp3 false and a positive
\* quality is spawned with '--remux-video' and 'mp4', with '-f' followed by a
\* selector that contains bestvideo[height<=h], and with no '+bestaudio' in
\* any argument.
C13_VideoOnlyArgs ==
    \A r \in 1 .. Len(replies), c \in 1 .. Len(spawns) :
        LET body == replies[r].body
            args == spawns[c].args
        IN  /\ replies[r].jobId = spawns[c].jobId
            /\ body.videoOnly /\ ~body.mp3
            /\ body.quality.kind = "number" /\ body.quality.half > 0
            => /\ Arg("--remux-video") \in ArgSet(args)
               /\ Arg("mp4") \in ArgSet(args)
               /\ \E i \in 1 .. (Len(args) - 1) :
                     args[i] = Arg("-f") /\ CapsHeight(args[i + 1], Floor(body.quality))
               /\ \A i \in 1 .. Len(args) : ~HasPart(args[i], "+bestaudio")

\* the step is a POST /api/download; its request body and its reply
IsPost == Len(replies') = Len(replies) + 1
PostedBody == replies'[Len(replies')].body
PostReply == replies'[Len(replies')]

\* the text is empty or all white space
IsBlank(str) == \A i \in 1 .. Len(str) : str[i] \in {" ", "\t", "\n", "\r"}

\* the id is 11 characters of the class [a-zA-Z0-9_-]
MatchesIdPattern(id) == id \in [1 .. 11 -> IdChars]

\* the body parses, its url is blank and none of its ids matches the pattern
LacksUrlAndIds(body) ==
    /\ body.json
    /\ IsBlank(body.url)
    /\ \A i \in 1 .. Len(body.ids) : ~MatchesIdPattern(body.ids[i])

\* C14: a POST /api/download whose body has a blank url and no id that
\* matches the 11-character pattern is answered 400 with the error
\* "Missing url", and the spawner is not called.
C14_MissingUrl ==
    [][IsPost /\ LacksUrlAndIds(PostedBody) =>
          /\ PostReply.status = 400
          /\ PostReply.error = "Missing url"
          /\ spawns' = spawns
          /\ child' = child]_vars

\* a request with a white-space url and ids that miss the pattern by their
\* length or by one character was answered
C14_Witness ==
    \E r \in 1 .. Len(replies) :
        /\ replies[r].body.json
        /\ replies[r].body.url = <<" ">>
        /\ replies[r].body.ids = <<IdShort, IdBang>>
        /\ replies[r].status = 400

\* C15: a POST /api/download whose cookiesFromBrowser is present and not one
\* of chrome, edge, firefox is answered 400, and the spawner is not called.
C15_BadCookies ==
    [][IsPost /\ PostedBody.json
              /\ PostedBody.cookiesFromBrowser \notin {"", "chrome", "edge", "firefox"} =>
          /\ PostReply.status = 400
          /\ spawns' = spawns
          /\ child' = child]_vars

\* a request with a url, two valid ids and the cookies of safari was rejected
\* for its cookies
C15_Witness ==
    \E r \in 1 .. Len(replies) :
        /\ replies[r].body.cookiesFromBrowser = "safari"
        /\ replies[r].body.url = <<"u">>
        /\ replies[r].body.ids = <<IdA, IdB>>
        /\ replies[r].status = 400
        /\ replies[r].error = BadCookiesError

\* the jobs whose spawner call threw: the call was made and left no child
LaunchFailed == {j \in DOMAIN jobs : ~child[j].spawned /\ \E c \in 1 .. Len(spawns) : spawns[c].jobId = j}

\* C16: when the spawner throws, the job's log holds the descriptive line
\* and the job is terminal with exitCode -1 by the time the request is
\* answered, the reply is 200 with the job's id, and a listener that
\* attaches afterwards is sent that line and then 'done' with exitCode -1.
C16_LaunchFailure ==
    \A j \in LaunchFailed :
        /\ jobs[j].lines = <<FailedToStartLine>>
        /\ jobs[j].done = <<-1>>
        /\ \E r \in 1 .. Len(replies) : replies[r].status = 200 /\ replies[r].jobId = j
        /\ \A c \in StreamsOf(j) :
              sent[c] = <<LogEvent(FailedToStartLine), DoneEvent(-1)>> /\ conn[c].ended

\* a listener attached to a job whose spawner call threw
C16_Witness == \E j \in LaunchFailed : StreamsOf(j) # {}

\* C17: every 200 reply of POST /api/download, after a launch and after a
\* spawner call that threw alike, carries jobId, count and downloadsDir.
C17_ReplyComplete ==
    \A r \in 1 .. Len(replies) :
        replies[r].status = 200 =>
            replies[r].jobId \in DOMAIN jobs /\ replies[r].count >= 1 /\ replies[r].downloadsDir

\* the step is a GET /api/files or GET /api/file request; its reply
FileAnswer == http'[Len(http')]
IsFilesRequest == Len(http') = Len(http) + 1 /\ FileAnswer.route = "files"
IsFileRequest == Len(http') = Len(http) + 1 /\ FileAnswer.route = "file"

\* C18: GET /api/files/:jobId never fails: it answers 200 with files and
\* downloadUrls of equal length, both empty when the job is absent from the
\* registry or its directory cannot be read.
C18_FilesNeverFails ==
    [][IsFilesRequest =>
          /\ FileAnswer.status = 200
          /\ Len(FileAnswer.files) = Len(FileAnswer.downloadUrls)
          /\ (FileAnswer.jobId \notin DOMAIN jobs \/ ~disk[FileAnswer.jobId].exists)
                 => FileAnswer.files = <<>>]_vars

\* the connections a step accepts
Accepted == {c \in Conns : conn[c].status = 0 /\ conn'[c].status # 0}

\* the requested name decodes, and its sanitized form names no file of the
\* job's directory
NamesNoFile(reply) ==
    LET rawName == DecodeURIComponent(reply.name)
    IN  rawName # <<>> => SafeBasename(rawName[1], reply.win32) \notin disk[reply.jobId].files

\* C19: GET /api/events and GET /api/file for a job id absent from the
\* registry are answered 400, with no event stream opened and no listener
\* registered; GET /api/file for a known job and a name whose sanitized form
\* is not in the job directory is answered 404.
C19_UnknownJobAndMissingFile ==
    [][/\ \A c \in Accepted :
             /\ conn'[c].status = 200 => conn'[c].jobId \in DOMAIN jobs
             /\ conn'[c].status # 200 =>
                   conn'[c].status = 400 /\ sent'[c] = <<>> /\ jobs' = jobs
       /\ IsFileRequest /\ FileAnswer.jobId \notin DOMAIN jobs => FileAnswer.status = 400
       /\ IsFileRequest /\ FileAnswer.jobId \in DOMAIN jobs /\ NamesNoFile(FileAnswer)
             => FileAnswer.status = 404]_vars

\* the line is, white space aside, a JSON object whose id matches the pattern
IsEntryLine(line) ==
    \E open \in Opens :
        TrimText(line) = <<open, CloseBrace>> /\ MatchesIdPattern(IdOf(open))

\* the lines of the child's whole output that are entries, in output order
EntryLines == SelectSeq(TerminatedLines(list.stdout), IsEntryLine)

MatchesCannotSpawn(message) ==
    message # <<>> /\ message[1] = "Cannot spawn yt-dlp: "

DoctorReplied == probe.route = "doctor" /\ probe.state = "replied"

\* C21: GET /api/doctor always answers 200; a child that emits 'error' gives
\* ok = false and a message matching "cannot spawn yt-dlp"; a non-zero exit
\* and an exception of the spawner give ok = false; only exit code 0 gives
\* ok = true.
C21_DoctorAlways200 ==
    DoctorReplied =>
        /\ probe.status = 200
        /\ probe.exit = "error" => ~probe.ok /\ MatchesCannotSpawn(probe.message)
        /\ probe.exit \in {"close", "throw"} => ~probe.ok
        /\ probe.ok <=> probe.exit = "close 0"

\* the child wrote to both streams and then exited with a non-zero code
C21_Witness ==
    /\ DoctorReplied
    /\ probe.exit = "close"
    /\ probe.stdout # <<>> /\ probe.stderr # <<>>
    /\ ~probe.ok

(* GET /api/list: failures *)

\* the error names the setting of the binary path ("Set YTDLP_BIN ...")
MentionsConfigHint(error) == \E i \in 1 .. Len(error) : error[i] = ConfigHint

\* C22: GET /api/list with a non-blank url answers 500 with an error that
\* mentions "Set YTDLP_BIN" when the spawner throws and when the child emits
\* 'error'; a missing or blank url answers 400.
C22_ListLaunchFailure ==
    list.state = "replied" =>
        /\ IsBlank(list.url) => list.status = 400
        /\ ~IsBlank(list.url) /\ list.exit \in {"throw", "error"} =>
              list.status = 500 /\ MentionsConfigHint(list.error)

\* the child wrote a whole entry and then emitted 'error'
C22_Witness ==
    /\ list.state = "replied"
    /\ list.url = <<" ", "u", " ">>
    /\ list.exit = "error"
    /\ Len(list.videos) = 1

\* a blank url was refused
C22_WitnessBlank ==
    list.state = "replied" /\ list.url = <<" ">> /\ list.status = 400

(* GET /api/info *)

\* the metadata object the child returned (the reply is a success)
InfoObject == ParseInfo(Trim(probe.stdout))[1]

\* the heights of the formats that are finite numbers above zero
PositiveHeights(formats) ==
    {HeightOf(formats[i]).n : i \in {k \in 1 .. Len(formats) : formats[k] \in {"720", "1080"}}}

\* C23: on success of GET /api/info, qualities holds exactly the distinct
\* format heights that are finite positive numbers, in strictly descending
\* order (other formats contribute nothing), and mp3 is true.
C23_Qualities ==
    probe.route = "info" /\ probe.state = "replied" /\ probe.ok =>
        /\ {probe.qualities[i] : i \in 1 .. Len(probe.qualities)}
              = PositiveHeights(InfoObject.formats)
        /\ \A i, j \in 1 .. Len(probe.qualities) :
              i < j => probe.qualities[i] > probe.qualities[j]
        /\ probe.mp3

\* a height given twice with a greater one between the two
C23_Witness ==
    /\ probe.route = "info" /\ probe.state = "replied" /\ probe.ok
    /\ InfoObject.formats = <<"720", "1080", "720">>
    /\ probe.qualities = <<1080, 720>>

(* job ids *)

\* C24: no two accepted download requests are given the same job id (a new
\* job never takes the registry entry of an earlier one).
C24_JobIdsUnique ==
    \A i, k \in 1 .. Len(replies) :
        i < k /\ replies[i].jobId # 0 => replies[k].jobId # replies[i].jobId

(* POST /api/download: the format selector *)

\* the requested quality is a finite number above zero
PositiveFinite(quality) == quality.kind = "number" /\ quality.half > 0

\* the argument is bestvideo[height<=h]+bestaudio/best[height<=h] for a
\* whole number h >= 1
IsFallbackSelector(arg) ==
    /\ Len(arg) = 7
    /\ \E h \in 1 .. 4320 :
          arg = <<"bestvideo[height<=", ToString(h), "]", "+bestaudio",
                  "/best[height<=", ToString(h), "]">>

\* C25: the arguments of a download hold '-f' exactly when the requested
\* quality is a positive finite number, and then '-f' is followed by
\* bestvideo[height<=h]+bestaudio/best[height<=h] with h a positive integer.
C25_FormatSelectorIffPositive ==
    \A r \in 1 .. Len(replies), c \in 1 .. Len(spawns) :
        LET body == replies[r].body
            args == spawns[c].args
        IN  replies[r].jobId = spawns[c].jobId =>
               /\ Arg("-f") \in ArgSet(args) <=> PositiveFinite(body.quality)
               /\ \A i \in 1 .. (Len(args) - 1) :
                     args[i] = Arg("-f") => IsFallbackSelector(args[i + 1])

(* POST /api/download: bulk mode *)

\* one canonical watch URL per line, for the ids in order
RECURSIVE WatchLines(_)
WatchLines(ids) ==
    IF ids = <<>> THEN <<>>
    ELSE <<WatchPrefix>> \o ids[1] \o <<LF>> \o WatchLines(Tail(ids))

\* the request of the step was accepted and its process was started
IsLaunch == IsPost /\ PostReply.status = 200 /\ Len(spawns') = Len(spawns) + 1 /\ PostReply.downloadsDir

\* C26: a body with at least one valid id is handled in bulk mode even when
\* its url is not empty: the url is not passed to the process, the list file
\* passed with '-a' holds one canonical watch URL per valid id and nothing
\* else, and count is the number of valid ids; with no valid id and a
\* non-empty url the url is passed and count is 1.
C26_BulkPriority ==
    [][/\ IsPost /\ PostReply.status = 200 =>
             PostReply.count = IF SelectSeq(PostedBody.ids, MatchesIdPattern) # <<>>
                               THEN Len(SelectSeq(PostedBody.ids, MatchesIdPattern))
                               ELSE 1
       /\ IsLaunch =>
          LET body == PostedBody
              valid == SelectSeq(body.ids, MatchesIdPattern)
              url == Trim(body.url)
              j == PostReply.jobId
              args == spawns'[Len(spawns')].args
          IN  IF valid # <<>>
              THEN /\ \A i \in 1 .. Len(args) : args[i] # url
                   /\ \E i \in 1 .. (Len(args) - 1) :
                         args[i] = Arg("-a") /\ args[i + 1] = TmpListPath(j)
                   /\ tmpFiles'[j] = <<WatchLines(valid)>>
                   /\ PostReply.count = Len(valid)
              ELSE /\ url # <<>>
                   /\ \E i \in 1 .. Len(args) : args[i] = url
                   /\ Arg("-a") \notin ArgSet(args)
                   /\ tmpFiles'[j] = <<>>
                   /\ PostReply.count = 1
      ]_vars

\* a body with a url, an id that is too short and a valid id was launched
C26_Witness ==
    /\ Len(replies) = 1 /\ Len(spawns) = 1
    /\ replies[1].status = 200 /\ replies[1].count = 1
    /\ replies[1].body.url = <<"u">>
    /\ replies[1].body.ids = <<IdShort, IdA>>
    /\ tmpFiles[1] # <<>>

(* GET /api/playlist *)

\* C27: GET /api/playlist is an alias of GET /api/list: for the same url and
\* the same behaviour of the child the two pass the same arguments to the
\* spawner and answer with the same status and the same body.
C27_PlaylistIsAlias ==
    /\ playlist.args = list.args
    /\ playlist.state = list.state
    /\ playlist.status = list.status
    /\ playlist.error = list.error
    /\ playlist.state = "replied" => playlist.videos = list.videos

\* both answered 500 after an entry on stdout, text on stderr and exit code 1
C27_Witness ==
    /\ playlist.state = "replied" /\ list.state = "replied"
    /\ playlist.exit = "close" /\ playlist.status = 500
    /\ playlist.stderr = <<"e">>
    /\ Len(playlist.videos) = 1
    /\ playlist.args # <<>>

\* both answered 200 with an entry
C27_WitnessVideos ==
    /\ playlist.state = "replied" /\ playlist.status = 200
    /\ Len(playlist.videos) = 1 /\ list.videos = playlist.videos

(* failures inside a handler *)

\* C28: a failure thrown while a request is handled is answered (status 500)
\* and leaves the registry with no job that has neither a process nor an
\* exit code.
C28_FailureLeavesJobsSettled ==
    \A r \in 1 .. Len(replies) :
        replies[r].status = 500 =>
            \A j \in DOMAIN jobs : child[j].spawned \/ jobs[j].done # <<>>

(* parseArgs *)

\* the arguments of the call, after the binary and the script
CliArgs == SubSeq(cli.argv, 3, Len(cli.argv))

\* the command line with every "--host X" and "--port N" written "--host=X"
\* and "--port=N" (a flag that ends the line has no value to join)
RECURSIVE JoinedForm(_)
JoinedForm(args) ==
    IF args = <<>> THEN <<>>
    ELSE IF args[1] \in {HostFlag, PortFlag} /\ Len(args) >= 2
    THEN <<args[1] \o <<"=">> \o args[2]>> \o JoinedForm(Tail(Tail(args)))
    ELSE IF args[1] \in {HostFlag, PortFlag} THEN args
    ELSE <<args[1]>> \o JoinedForm(Tail(args))

\* the argument is "--host=..." or "--port=..."
IsJoined(arg) == Len(arg) >= 7 /\ SubSeq(arg, 1, 7) \in {HostPrefix, PortPrefix}

\* the command line with every "--host=X" and "--port=N" written as two
\* arguments
RECURSIVE SpacedForm(_)
SpacedForm(args) ==
    IF args = <<>> THEN <<>>
    ELSE IF args[1] \in {HostFlag, PortFlag} /\ Len(args) >= 2
    THEN <<args[1], args[2]>> \o SpacedForm(Tail(Tail(args)))
    ELSE IF IsJoined(args[1])
    THEN <<SubSeq(args[1], 1, 6), SubSeq(args[1], 8, Len(args[1]))>>
             \o SpacedForm(Tail(args))
    ELSE <<args[1]>> \o SpacedForm(Tail(args))

\* the positions of the joined form that hold one of the given flags
FlagsAt(joined, flags) == {i \in 1 .. Len(joined) : joined[i] \in flags}

\* the values of the "--port=N" arguments of the joined form, in order
PortTexts(joined) ==
    LET at(i) == Len(joined[i]) >= 7 /\ SubSeq(joined[i], 1, 7) = PortPrefix
        idx == {i \in 1 .. Len(joined) : at(i)}
    IN  [k \in idx |-> SubSeq(joined[k], 8, Len(joined[k]))]

\* C29: parseArgs gives the same result for the space-separated and the
\* '='-joined forms of --host and --port; help is set (to true) only for
\* --help and -h; open is true for --open and false for --no-open; a port
\* value that is not a number gives port undefined (never NaN); out has no
\* other keys.
C29_ParseArgs ==
    cli.called =>
        LET joined == JoinedForm(CliArgs)
            head == SubSeq(cli.argv, 1, 2)
            opens == FlagsAt(joined, {OpenFlag, NoOpenFlag})
            ports == PortTexts(joined)
            last == CHOOSE i \in DOMAIN ports : \A k \in DOMAIN ports : i >= k
        IN  /\ ParseArgs(head \o joined) = cli.out
            /\ ParseArgs(head \o SpacedForm(CliArgs)) = cli.out
            /\ cli.out.help = IF FlagsAt(joined, {HelpLong, HelpShort}) # {}
                              THEN Value(TRUE) ELSE Unset(FALSE)
            /\ cli.out.open =
                  IF opens = {} THEN Unset(FALSE)
                  ELSE Value(joined[CHOOSE i \in opens : \A k \in opens : i >= k] = OpenFlag)
            /\ ~(cli.out.port.set /\ cli.out.port.defined /\ cli.out.port.v.nan)
            /\ DOMAIN ports # {} /\ joined[Len(joined)] # PortFlag =>
                  /\ ports[last] \in {<<"h">>, <<"8", "x">>} => cli.out.port = Undefined([nan |-> FALSE, n |-> 0])
                  /\ ports[last] = <<"8", "0">> => cli.out.port = Value([nan |-> FALSE, n |-> 80])
            /\ DOMAIN cli.out = {"help", "open", "host", "port"}

\* "--host h --port 8x" was parsed: the host is "h" and the port undefined
C29_Witness ==
    /\ cli.called
    /\ CliArgs = <<HostFlag, <<"h">>, PortFlag, <<"8", "x">>>>
    /\ cli.out.host = Value(<<"h">>)
    /\ cli.out.port.set /\ ~cli.out.port.defined

\* "--host=h --port=80" was parsed
C29_WitnessJoined ==
    /\ cli.called
    /\ CliArgs = <<HostPrefix \o <<"h">>, PortPrefix \o <<"8", "0">>>>
    /\ cli.out.host = Value(<<"h">>)
    /\ cli.out.port = Value([nan |-> FALSE, n |-> 80])

(* POST /api/download: outDir *)

\* C30: a body whose outDir names no existing directory is rejected with
\* status 400 and an error that says "outDir must exist", also when it has
\* valid ids, and no job is started for it.
C30_OutDirMustExist ==
    \A r \in 1 .. Len(replies) :
        replies[r].body.json /\ replies[r].body.outDir = "missing-dir" =>
            /\ replies[r].status = 400
            /\ replies[r].error = "outDir must exist"
            /\ replies[r].jobId = 0
            /\ spawns = <<>> /\ jobs = <<>>

(* a job's exit code *)

\* C31: the exitCode of a job whose child was launched is the numeric code
\* its 'close' event delivered, and it is the sentinel -1 when the child
\* emitted 'error' after the launch.
C31_ExitCodeOfChild ==
    [][\A jobId \in DOMAIN jobs :
          /\ \A code \in CloseCodes :
                OnChildClose(jobId, code)
                    => jobs'[jobId].done
                          = <<IF code # <<>> THEN code[1] ELSE Sentinel>>
          /\ child'[jobId].spawned /\ child'[jobId].errored
                => jobs'[jobId].done = <<Sentinel>>]_vars

(* GET /api/list: the end of the child's output *)

\* the lines of the child's whole output when the end of the stream ends the
\* last line too, the entries among them in output order
EntryLinesAtEnd == SelectSeq(TerminatedLines(list.stdout \o <<LF>>), IsEntryLine)

\* C32: in GET /api/list a last line that the child writes without a
\* trailing newline is framed as a line when the stream ends: when the child
\* exits with code 0, 'videos' has the entries of all lines of the output,
\* the unterminated last one included.
C32_LastLineFramed ==
    list.exit = "close 0" =>
        /\ Len(list.videos) = Len(EntryLinesAtEnd)
        /\ \A i \in 1 .. Len(list.videos) :
              list.videos[i].id = IdOf(TrimText(EntryLinesAtEnd[i])[1])

(* the job registry *)

\* C33: the registry only grows: a job that is in the registry stays there
\* under its id, with the same id, createdAt and output directory, through
\* every step: appends, completion, listeners attaching and detaching, file
\* requests, and the registration of other jobs.
C33_RegistryOnlyGrows ==
    [][\A jobId \in DOMAIN jobs :
          /\ jobId \in DOMAIN jobs'
          /\ jobs'[jobId].id = jobId
          /\ jobs'[jobId].id = jobs[jobId].id
          /\ jobs'[jobId].createdAt = jobs[jobId].createdAt
          /\ jobs'[jobId].downloadsDir = jobs[jobId].downloadsDir]_vars

\* two jobs created at different times, the first one terminal with lines in
\* its log, a listener that attached and went away, and a file request
C33_Witness ==
    /\ Len(jobs) = 2
    /\ jobs[1].id = 1 /\ jobs[2].id = 2
    /\ jobs[1].createdAt < jobs[2].createdAt
    /\ jobs[1].downloadsDir = JobDir(1)
    /\ jobs[1].done # <<>> /\ jobs[1].lines # <<>>
    /\ conn[1].jobId = 1 /\ conn[1].closed
    /\ http # <<>>

(* POST /api/download: the requests answered 400 *)

\* C34: a POST /api/download that is answered 400 (invalid JSON body,
\* missing url, invalid cookiesFromBrowser) leaves the registry as it was
\* and leaves no temporary id-list file and no new job directory behind.
C34_RejectedLeavesNothing ==
    [][IsPost /\ PostReply.status = 400
          => /\ jobs' = jobs
             /\ tmpFiles' = tmpFiles
             /\ disk' = disk]_vars

(* the observers of a job *)

\* the 'done' events written to a response
DoneEvents(events) == SelectSeq(events, LAMBDA e : e.event = "done")

\* C35: all observers of a job see the same exit code: the 'done' event sent
\* to a listener that attached before completion and the one sent to a
\* listener that attaches after it carry the same exitCode, in whatever
\* order the child's 'error' and 'close' fire.
C35_SameExitCodeForAll ==
    \A jobId \in DOMAIN jobs :
        \A c, d \in StreamsOf(jobId) :
            HasDone(sent[c]) /\ HasDone(sent[d])
                => DoneEvents(sent[c])[1] = DoneEvents(sent[d])[1]

(* the log of a terminal job *)

\* C36: once a job is terminal its log is frozen: no step changes job.lines
\* after job.done is set, whatever data or 'error' callbacks arrive later,
\* so every listener that attaches after completion is replayed the same
\* tail.
C36_LogFrozenWhenDone ==
    [][\A jobId \in DOMAIN jobs :
          jobs[jobId].done # <<>>
              => /\ jobs'[jobId].lines = jobs[jobId].lines
                 /\ ReplayLines(jobs'[jobId].lines) = ReplayLines(jobs[jobId].lines)]_vars

(* replay and live broadcast *)

\* the lines of the 'log' events written to a response, in order
LogLinesOf(events) ==
    LET logs == SelectSeq(events, LAMBDA e : e.event = "log")
    IN  [i \in 1 .. Len(logs) |-> logs[i].line]

\* C37: for a listener that attached to a running job, replay and live
\* broadcast join without gap or overlap: the lines written to it are the
\* lines of the last-250 window at attach time followed by the lines
\* appended after the attach, each once and in order, with none skipped
\* while it is registered.
C37_ReplayJoinsBroadcast ==
    \A jobId \in DOMAIN jobs :
        \A c \in StreamsOf(jobId) :
            conn[c].onClose =>
                LET a == conn[c].attachAt
                    r == ReplayCount(a)
                    lines == LogLinesOf(sent[c])
                    k == Len(lines) - r
                IN  /\ k >= 0
                    /\ a + k <= Len(appended[jobId])
                    /\ lines = SubSeq(appended[jobId], a - r + 1, a + k)
                    /\ c \in jobs[jobId].sseClients => a + k = Len(appended[jobId])

\* a registered listener that attached when the log was longer than the
\* replay window, and lines were appended since
C37_Witness ==
    \E c \in Conns :
        /\ conn[c].status = 200 /\ conn[c].onClose
        /\ c \in jobs[conn[c].jobId].sseClients
        /\ conn[c].attachAt > ReplayTail
        /\ Len(appended[conn[c].jobId]) > conn[c].attachAt + 1
        /\ Len(LogLinesOf(sent[c])) = ReplayTail + Len(appended[conn[c].jobId]) - conn[c].attachAt

(* the listeners of a terminal job *)

\* C38: in every reachable state a job whose done field is set has an empty
\* sseClients set: jobDone clears the set, and no attach or detach that
\* follows adds a listener to a terminal job.
C38_TerminalJobHasNoClients ==
    \A jobId \in DOMAIN jobs :
        jobs[jobId].done # <<>> => jobs[jobId].sseClients = {}

\* a terminal job that had a listener when it completed, and to which
\* another listener attached afterwards; the first one then closed
C38_Witness ==
    \E jobId \in DOMAIN jobs, c, d \in Conns :
        /\ jobs[jobId].done # <<>>
        /\ c # d
        /\ conn[c].status = 200 /\ conn[c].jobId = jobId
        /\ conn[c].onClose /\ conn[c].closed /\ HasDone(sent[c])
        /\ conn[d].status = 200 /\ conn[d].jobId = jobId
        /\ ~conn[d].onClose /\ conn[d].ended /\ HasDone(sent[d])

(* one response per request *)

\* the request was answered exactly once if its child emitted an event or
\* the handler replied, and never more than once
AnsweredOnce(request) ==
    /\ request.responses <= 1
    /\ request.state = "replied" => request.responses = 1
    /\ request.events # <<>> => request.state = "replied" /\ request.responses = 1

\* C39: each GET /api/doctor, /api/info and /api/list request sends exactly
\* one response, also when its child emits both 'error' and 'close', in
\* either order; and it has responded as soon as the child has emitted one
\* of the two.
C39_ExactlyOneResponse == AnsweredOnce(list) /\ AnsweredOnce(probe)

\* the child of a list request emitted 'error' and then 'close', the child
\* of an info request 'close' and then 'error'
C39_Witness ==
    /\ list.events = <<"error", "close">> /\ list.responses = 1 /\ list.status = 500
    /\ probe.route = "info"
    /\ probe.events = <<"close", "error">> /\ probe.responses = 1 /\ probe.ok

\* the child of a doctor request emitted 'close' with code 1 and then 'error'
C39_WitnessDoctor ==
    /\ probe.route = "doctor"
    /\ probe.events = <<"close", "error">> /\ probe.responses = 1
    /\ probe.exit = "close" /\ ~probe.ok

====
